---- MODULE Spec2Model ----
(***************************************************************************)
(* Ingredient-text normalisation pipeline of recipePostgres:                *)
(* parse_ingredient_advanced / fallback_parse / categorize_ingredient       *)
(* (utils.py), the example driver (test.py), convert_quantity,              *)
(* insert_recipe and import_recipes_from_directory (import_recipes.py),     *)
(* the scraper's parse_ingredients / parse_instructions (grabwebdata.py),    *)
(* and the crawler that saves what was scraped (batchcreate.py).            *)
(*                                                                         *)
(* Python strings are sequences of one-character strings, so that the       *)
(* regular expressions, strip(), split() and lower() are computed on        *)
(* characters as the interpreter computes them.                             *)
(***************************************************************************)
EXTENDS Integers, Sequences, FiniteSets, TLC

(***************************************************************************)
(* Bounds of the model.                                                    *)
(***************************************************************************)
MaxTokens == 3

(***************************************************************************)
(* Characters and the str methods the code uses.                           *)
(***************************************************************************)
None == [kind |-> "None"]

Digits == {"0", "1", "2", "3", "4", "5", "6", "7", "8", "9"}

\* \s of the re module and the characters str.strip() / str.split() drop
Whitespace == {" ", "\t", "\n"}

\* the character class [\d\/\.\s] of both quantity patterns
QuantityChars == Digits \cup {"/", "."} \cup Whitespace

\* the character class [\/\s] of the residual-slash pattern
SlashChars == {"/"} \cup Whitespace

\* the character class [,(] main_part is split on
Delimiters == {",", "("}

UpperCase ==
    << "A", "B", "C", "D", "E", "F", "G", "H", "I", "J", "K", "L", "M",
       "N", "O", "P", "Q", "R", "S", "T", "U", "V", "W", "X", "Y", "Z" >>

LowerCase ==
    << "a", "b", "c", "d", "e", "f", "g", "h", "i", "j", "k", "l", "m",
       "n", "o", "p", "q", "r", "s", "t", "u", "v", "w", "x", "y", "z" >>

LowerChar(c) ==
    IF \E i \in 1..26 : UpperCase[i] = c
    THEN LowerCase[CHOOSE i \in 1..26 : UpperCase[i] = c]
    ELSE c

UpperChar(c) ==
    IF \E i \in 1..26 : LowerCase[i] = c
    THEN UpperCase[CHOOSE i \in 1..26 : LowerCase[i] = c]
    ELSE c

\* str.lower()
lower(s) == [i \in 1..Len(s) |-> LowerChar(s[i])]

\* str.upper(), used to build inputs in other letter cases
upper(s) == [i \in 1..Len(s) |-> UpperChar(s[i])]

\* s[i:] with a 1-based i
From(s, i) == SubSeq(s, i, Len(s))

\* length of the longest run of characters of cls that starts at s[i]
RECURSIVE RunLen(_, _, _)
RunLen(cls, s, i) ==
    IF i <= Len(s) /\ s[i] \in cls THEN 1 + RunLen(cls, s, i + 1) ELSE 0

\* length of the longest run of characters of cls that ends at s[i]
RECURSIVE RunLenBack(_, _, _)
RunLenBack(cls, s, i) ==
    IF i >= 1 /\ s[i] \in cls THEN 1 + RunLenBack(cls, s, i - 1) ELSE 0

\* str.strip()
strip(s) ==
    LET a == RunLen(Whitespace, s, 1)
        b == RunLenBack(Whitespace, s, Len(s))
    IN  IF a = Len(s) THEN <<>> ELSE SubSeq(s, a + 1, Len(s) - b)

\* str.split(): the whitespace-separated words, in order
RECURSIVE split(_)
split(s) ==
    LET a == RunLen(Whitespace, s, 1)
        rest == From(s, a + 1)
        n == RunLen({rest[i] : i \in 1..Len(rest)} \ Whitespace, rest, 1)
    IN  IF rest = <<>> THEN <<>>
        ELSE <<SubSeq(rest, 1, n)>> \o split(From(rest, n + 1))

\* s occurs in t at a position (the Python operator "s in t")
Contains(t, s) ==
    \E i \in 1..(Len(t) - Len(s) + 1) : SubSeq(t, i, i + Len(s) - 1) = s

(***************************************************************************)
(* Backtracking matcher of the re module.  A sub-pattern applied at        *)
(* position i yields the positions it can end at, in the order the         *)
(* matcher tries them; the match re finds is the head of the list of the   *)
(* whole pattern.                                                          *)
(***************************************************************************)
\* sequencing of two sub-patterns: every end of the first, in order,
\* continued by the second
\* (next maps a position to the ends of the second sub-pattern from there)
RECURSIVE FlatMap(_, _)
FlatMap(next, ends) ==
    IF ends = <<>> THEN <<>>
    ELSE next[Head(ends)] \o FlatMap(next, Tail(ends))

\* the positions of s a sub-pattern can be applied at
Positions(s) == 1..(Len(s) + 1)

\* greedy cls+ (least = 1) or cls* (least = 0): longest run first
GreedyRun(cls, s, i, least) ==
    LET n == RunLen(cls, s, i)
    IN  IF n < least THEN <<>>
        ELSE [k \in 1..(n - least + 1) |-> i + n - (k - 1)]

\* a literal word matched without re.IGNORECASE
WordAt_CaseSensitive(w, s, i) ==
    /\ i + Len(w) - 1 <= Len(s)
    /\ \A k \in 1..Len(w) : s[i + k - 1] = w[k]

\* one literal word under re.IGNORECASE
WordAt(w, s, i) ==
    /\ i + Len(w) - 1 <= Len(s)
    /\ \A k \in 1..Len(w) : LowerChar(s[i + k - 1]) = w[k]

\* an alternation (k1|k2|...): the alternatives that match, in their order
KeywordEnds(keywords, s, i) ==
    LET RECURSIVE go(_)
        go(k) == IF k > Len(keywords) THEN <<>>
                 ELSE (IF WordAt(keywords[k], s, i)
                       THEN <<i + Len(keywords[k])>> ELSE <<>>) \o go(k + 1)
    IN  go(1)

\* s? under re.IGNORECASE: with the "s" first, then without
OptionalS(s, i) ==
    IF i <= Len(s) /\ LowerChar(s[i]) = "s" THEN <<i + 1, i>> ELSE <<i>>

\* the literal "/"
SlashAt(s, i) == IF i <= Len(s) /\ s[i] = "/" THEN <<i + 1>> ELSE <<>>

UNIT_KEYWORDS ==
    << <<"t","s","p">>,
       <<"t","b","s","p">>,
       <<"t","a","b","l","e","s","p","o","o","n">>,
       <<"t","e","a","s","p","o","o","n">>,
       <<"c","u","p">>,
       <<"c","u","p","s">>,
       <<"o","z">>,
       <<"o","u","n","c","e">>,
       <<"o","u","n","c","e","s">>,
       <<"g">>,
       <<"g","r","a","m">>,
       <<"g","r","a","m","s">>,
       <<"k","g">>,
       <<"l","b">>,
       <<"l","b","s">>,
       <<"p","o","u","n","d">>,
       <<"p","o","u","n","d","s">>,
       <<"m","l">>,
       <<"m","i","l","l","i","l","i","t","e","r">>,
       <<"l","i","t","e","r">>,
       <<"l">>,
       <<"s","m","a","l","l">>,
       <<"l","a","r","g","e">>,
       <<"m","e","d","i","u","m">>,
       <<"p","i","n","c","h">>,
       <<"d","a","s","h">>,
       <<"c","l","o","v","e">>,
       <<"c","l","o","v","e","s">> >>

DUAL_UNIT_KEYWORDS ==
    << <<"t","s","p">>,
       <<"t","b","s","p">>,
       <<"t","a","b","l","e","s","p","o","o","n">>,
       <<"t","e","a","s","p","o","o","n">>,
       <<"c","u","p">>,
       <<"c","u","p","s">>,
       <<"o","z">>,
       <<"o","u","n","c","e">>,
       <<"o","u","n","c","e","s">>,
       <<"g">>,
       <<"g","r","a","m">>,
       <<"g","r","a","m","s">>,
       <<"k","g">>,
       <<"l","b">>,
       <<"l","b","s">>,
       <<"p","o","u","n","d">>,
       <<"p","o","u","n","d","s">>,
       <<"m","l">>,
       <<"m","i","l","l","i","l","i","t","e","r">>,
       <<"l","i","t","e","r">>,
       <<"l">> >>

\* the second group written without its leading \s*
DualGroupEnds_NoLeadingSpace(s, i) ==
    LET plural == [e \in Positions(s) |-> OptionalS(s, e)]
        unit == [e \in Positions(s) |->
                    FlatMap(plural, KeywordEnds(DUAL_UNIT_KEYWORDS, s, e))]
        qty == [e \in Positions(s) |->
                   FlatMap(unit, GreedyRun(QuantityChars, s, e, 1))]
        space == [e \in Positions(s) |->
                     FlatMap(qty, GreedyRun(Whitespace, s, e, 0))]
    IN  FlatMap(space, SlashAt(s, i))

\* (\s*\/\s*[\d\/\.\s]+(...)s?) : the second quantity+unit group
DualGroupEnds(s, i) ==
    LET plural == [e \in Positions(s) |-> OptionalS(s, e)]
        unit == [e \in Positions(s) |->
                    FlatMap(plural, KeywordEnds(DUAL_UNIT_KEYWORDS, s, e))]
        qty == [e \in Positions(s) |->
                   FlatMap(unit, GreedyRun(QuantityChars, s, e, 1))]
        space == [e \in Positions(s) |->
                     FlatMap(qty, GreedyRun(Whitespace, s, e, 0))]
        slash == [e \in Positions(s) |-> FlatMap(space, SlashAt(s, e))]
    IN  FlatMap(slash, GreedyRun(Whitespace, s, i, 0))

\* ends of the matches of pattern at the start of s, in matcher order
PatternEnds(s) ==
    LET trail == [e \in Positions(s) |-> GreedyRun(Whitespace, s, e, 1)]
        dual == [e \in Positions(s) |->
                    FlatMap(trail, DualGroupEnds(s, e) \o <<e>>)]
        plural == [e \in Positions(s) |-> FlatMap(dual, OptionalS(s, e))]
        unit == [e \in Positions(s) |->
                    FlatMap(plural, KeywordEnds(UNIT_KEYWORDS, s, e))]
    IN  FlatMap(unit, GreedyRun(QuantityChars, s, 1, 1))

\* re.sub(pattern, '', ingredient_text, flags=re.IGNORECASE)
SubPattern(s) ==
    LET ends == PatternEnds(s)
    IN  IF ends = <<>> THEN s ELSE From(s, Head(ends))

\* re.sub(r'^[\d\/\.\s]+', '', ingredient_text)
SubLeadingQuantity(s) == From(s, RunLen(QuantityChars, s, 1) + 1)

\* re.sub(r'^[\/\s]+', '', main_part)
SubLeadingSlash(s) == From(s, RunLen(SlashChars, s, 1) + 1)

\* the text cut at the first comma only
SplitHead_CommaOnly(s) ==
    SubSeq(s, 1, RunLen({s[i] : i \in 1..Len(s)} \ {","}, s, 1))

\* re.split(r'[,(]', cleaned)[0]
SplitHead(s) ==
    SubSeq(s, 1, RunLen({s[i] : i \in 1..Len(s)} \ Delimiters, s, 1))

(***************************************************************************)
(* Values a call produces: a str, a dict, or an exception that leaves it.  *)
(***************************************************************************)
Str(v) == [kind |-> "str", value |-> v]

Raise(exc) == [kind |-> "raise", exc |-> exc]

fallback_parse(ingredient_text) ==
    LET sub == SubPattern(ingredient_text)
        cleaned == IF sub = ingredient_text
                   THEN strip(SubLeadingQuantity(ingredient_text))
                   ELSE sub
        main_part == strip(SubLeadingSlash(strip(SplitHead(cleaned))))
        words == split(main_part)
    IN  IF words = <<>> THEN Raise("IndexError") ELSE Str(words[1])

(***************************************************************************)
(* parse_ingredient of the ingredient_parser library.  Its outcome on a    *)
(* line is an input of the model: it raises, or it returns an object with  *)
(* name spans (text, confidence), amount spans (quantity, unit) and an     *)
(* optional preparation span, the attributes utils.py reads from it.       *)
(* Confidences are in hundredths.                                          *)
(***************************************************************************)
Threshold == 60

Fraction(n, d) == [kind |-> "Fraction", num |-> n, den |-> d]

Unit(v) == [kind |-> "Unit", text |-> v]

ParsedIngredient(name, amount, preparation) ==
    [kind |-> "ParsedIngredient", name |-> name, amount |-> amount,
     preparation |-> preparation]

\* the dict parse_ingredient_advanced builds
Dict(name, quantity, unit, preparation, original) ==
    [kind |-> "dict", name |-> name, quantity |-> quantity, unit |-> unit,
     preparation |-> preparation, original |-> original,
     parsed_successfully |-> TRUE]

\* the confidence test written with >= instead of >
ParseError_AtLeastThreshold(parsed) ==
    IF parsed.kind = "raise" THEN parsed.exc
    ELSE IF parsed.name = <<>> THEN "IndexError"
    ELSE IF parsed.name[1].confidence >= Threshold THEN "none"
    ELSE "ValueError"

\* the exception that is caught at "except Exception as e", if any
ParseError(parsed) ==
    IF parsed.kind = "raise" THEN parsed.exc
    ELSE IF parsed.name = <<>> THEN "IndexError"
    ELSE IF parsed.name[1].confidence > Threshold THEN "none"
    ELSE "ValueError"

\* the record built from the last name span and the last amount span
parse_ingredient_advanced_LastSpan(ingredient_text, parsed) ==
    IF ParseError(parsed) = "none"
    THEN Dict(parsed.name[Len(parsed.name)].text,
              IF parsed.amount # <<>>
              THEN parsed.amount[Len(parsed.amount)].quantity ELSE None,
              IF parsed.amount # <<>>
              THEN parsed.amount[Len(parsed.amount)].unit ELSE Str(<<>>),
              IF parsed.preparation.kind # "None" THEN parsed.preparation.text
                                                  ELSE <<>>,
              ingredient_text)
    ELSE fallback_parse(ingredient_text)

parse_ingredient_advanced(ingredient_text, parsed) ==
    IF ParseError(parsed) = "none"
    THEN Dict(parsed.name[1].text,
              IF parsed.amount # <<>> THEN parsed.amount[1].quantity ELSE None,
              IF parsed.amount # <<>> THEN parsed.amount[1].unit ELSE Str(<<>>),
              IF parsed.preparation.kind # "None" THEN parsed.preparation.text
                                           ELSE <<>>,
              ingredient_text)
    ELSE fallback_parse(ingredient_text)

\* the line parse_ingredient_advanced prints before it falls back
ParseFailedLine(ingredient_text, parsed) ==
    [text |-> ingredient_text, reason |-> ParseError(parsed)]

(***************************************************************************)
(* categorize_ingredient.  INGREDIENT_CATEGORIES is the literal the module *)
(* global is bound to when utils.py is loaded; ingredient_categories is    *)
(* the dict that global holds while the program runs, the one              *)
(* categorize_ingredient iterates over.                                    *)
(***************************************************************************)
VARIABLE ingredient_categories

INGREDIENT_CATEGORIES ==
    << [category |-> "proteins", keywords |->
          << <<"p","o","r","k">>,
             <<"c","h","i","c","k","e","n">>,
             <<"b","e","e","f">>,
             <<"l","a","m","b">>,
             <<"f","i","s","h">>,
             <<"s","a","l","m","o","n">>,
             <<"t","u","n","a">>,
             <<"s","h","r","i","m","p">>,
             <<"p","r","a","w","n","s">>,
             <<"t","o","f","u">>,
             <<"e","g","g","s">>,
             <<"t","u","r","k","e","y">> >>],
       [category |-> "vegetables", keywords |->
          << <<"z","u","c","c","h","i","n","i">>,
             <<"c","a","p","s","i","c","u","m">>,
             <<"p","e","p","p","e","r">>,
             <<"o","n","i","o","n">>,
             <<"g","a","r","l","i","c">>,
             <<"t","o","m","a","t","o">>,
             <<"c","a","r","r","o","t">>,
             <<"b","r","o","c","c","o","l","i">>,
             <<"s","p","i","n","a","c","h">>,
             <<"l","e","t","t","u","c","e">>,
             <<"m","u","s","h","r","o","o","m">> >>],
       [category |-> "grains", keywords |->
          << <<"c","o","u","s","c","o","u","s">>,
             <<"r","i","c","e">>,
             <<"p","a","s","t","a">>,
             <<"q","u","i","n","o","a">>,
             <<"b","r","e","a","d">>,
             <<"f","l","o","u","r">> >>],
       [category |-> "dairy", keywords |->
          << <<"c","h","e","e","s","e">>,
             <<"f","e","t","a">>,
             <<"m","i","l","k">>,
             <<"b","u","t","t","e","r">>,
             <<"c","r","e","a","m">>,
             <<"y","o","g","u","r","t">> >>],
       [category |-> "herbs", keywords |->
          << <<"m","i","n","t">>,
             <<"b","a","s","i","l">>,
             <<"p","a","r","s","l","e","y">>,
             <<"c","i","l","a","n","t","r","o">>,
             <<"t","h","y","m","e">>,
             <<"r","o","s","e","m","a","r","y">> >>] >>

\* the keywords looked up in the name as written, without lower()
categorize_ingredient_CaseSensitive(ingredient_name) ==
    LET Hit(c) == \E k \in 1..Len(ingredient_categories[c].keywords) :
                     Contains(ingredient_name,
                              ingredient_categories[c].keywords[k])
    IN  IF \E c \in 1..Len(ingredient_categories) : Hit(c)
        THEN ingredient_categories[
                 CHOOSE c \in 1..Len(ingredient_categories) :
                     Hit(c) /\ \A b \in 1..(c - 1) : ~Hit(b)].category
        ELSE "other"

categorize_ingredient(ingredient_name) ==
    LET ingredient_lower == lower(ingredient_name)
        Hit(c) == \E k \in 1..Len(ingredient_categories[c].keywords) :
                     Contains(ingredient_lower,
                              ingredient_categories[c].keywords[k])
    IN  IF \E c \in 1..Len(ingredient_categories) : Hit(c)
        THEN ingredient_categories[
                 CHOOSE c \in 1..Len(ingredient_categories) :
                     Hit(c) /\ \A b \in 1..(c - 1) : ~Hit(b)].category
        ELSE "other"

(***************************************************************************)
(* convert_quantity, convert_unit.  A float is written as the fraction     *)
(* num/den in lowest terms it stands for (binary rounding is not           *)
(* modelled); den = 0 writes the non-finite floats: 1/0 inf, -1/0 -inf,    *)
(* 0/0 nan.                                                                *)
(***************************************************************************)
Abs(n) == IF n < 0 THEN -n ELSE n

RECURSIVE GCD(_, _)
GCD(a, b) == IF b = 0 THEN a ELSE GCD(b, a % b)

Float(n, d) ==
    LET g == GCD(Abs(n), Abs(d))
    IN  IF d = 0 THEN [kind |-> "float", num |-> n, den |-> 0]
        ELSE [kind |-> "float", num |-> n \div g, den |-> d \div g]

DigitValue(c) == CHOOSE v \in 0..9 : <<"0", "1", "2", "3", "4", "5", "6", "7", "8", "9">>[v + 1] = c

\* int() of a run of decimal digits
RECURSIVE DecimalValue(_)
DecimalValue(s) ==
    IF s = <<>> THEN 0
    ELSE 10 * DecimalValue(SubSeq(s, 1, Len(s) - 1)) + DigitValue(s[Len(s)])

RECURSIVE Pow10(_)
Pow10(n) == IF n = 0 THEN 1 ELSE 10 * Pow10(n - 1)

AllDigits(s) == \A i \in 1..Len(s) : s[i] \in Digits

\* a numeric literal without its sign, and its sign
Unsigned(s) == IF s # <<>> /\ s[1] \in {"+", "-"} THEN Tail(s) ELSE s

Sign(s) == IF s # <<>> /\ s[1] = "-" THEN -1 ELSE 1

\* float(str): the decimal literals and inf / infinity / nan; any other
\* text is a ValueError (exponents and digit separators are not written
\* by the quantities of this model)
FloatOfStr(s) ==
    LET body == Unsigned(strip(s))
        sign == Sign(strip(s))
        int == RunLen(Digits, body, 1)
        frac == From(body, int + 2)
        word == lower(body)
    IN  IF word \in {<<"i","n","f">>, <<"i","n","f","i","n","i","t","y">>}
        THEN Float(sign, 0)
        ELSE IF word = <<"n","a","n">> THEN Float(0, 0)
        ELSE IF int = Len(body) /\ int > 0
        THEN Float(sign * DecimalValue(body), 1)
        ELSE IF /\ int < Len(body) /\ body[int + 1] = "."
                /\ AllDigits(frac) /\ int + Len(frac) > 0
        THEN Float(sign * (DecimalValue(SubSeq(body, 1, int)) * Pow10(Len(frac))
                             + DecimalValue(frac)),
                   Pow10(Len(frac)))
        ELSE Raise("ValueError")

\* float(Fraction(str)) for the texts float(str) rejects: "a/b"
FloatOfFractionStr(s) ==
    LET body == Unsigned(strip(s))
        sign == Sign(strip(s))
        int == RunLen(Digits, body, 1)
        denom == From(body, int + 2)
    IN  IF /\ int > 0 /\ int < Len(body) /\ body[int + 1] = "/"
           /\ denom # <<>> /\ AllDigits(denom)
        THEN IF DecimalValue(denom) = 0 THEN Raise("ZeroDivisionError")
             ELSE Float(sign * DecimalValue(SubSeq(body, 1, int)),
                        DecimalValue(denom))
        ELSE Raise("ValueError")

convert_quantity(quantity) ==
    IF quantity = None THEN None
    ELSE IF quantity.kind = "Fraction" THEN Float(quantity.num, quantity.den)
    ELSE IF quantity.kind \in {"int", "float"}
    THEN Float(quantity.num, quantity.den)
    ELSE IF quantity.kind = "str"
    THEN IF FloatOfStr(quantity.value).kind # "raise"
         THEN FloatOfStr(quantity.value)
         ELSE IF FloatOfFractionStr(quantity.value).kind # "raise"
         THEN FloatOfFractionStr(quantity.value)
         ELSE None
    ELSE None

convert_unit(unit) ==
    IF unit = None THEN <<>>
    ELSE IF unit.kind = "str" THEN unit.value
    ELSE unit.text

(***************************************************************************)
(* The row insert_recipe builds from one parsed ingredient line.           *)
(***************************************************************************)
\* the row built with the bare name string copied into unit as well
IngredientRow_NameAsUnit(recipe_id, ingredient_text, parsed, idx) ==
    LET ingredient_name == IF parsed.kind = "str" THEN parsed.value
                                                  ELSE parsed.name
        quantity == IF parsed.kind = "str" THEN None ELSE parsed.quantity
        unit == IF parsed.kind = "str" THEN parsed ELSE parsed.unit
        preparation == IF parsed.kind = "str" THEN <<>>
                                              ELSE parsed.preparation
    IN  [recipe_id |-> recipe_id,
         original_text |-> ingredient_text,
         ingredient_name |-> ingredient_name,
         quantity |-> convert_quantity(quantity),
         unit |-> convert_unit(unit),
         preparation |-> preparation,
         category |-> categorize_ingredient(ingredient_name),
         position |-> idx]

IngredientRow(recipe_id, ingredient_text, parsed, idx) ==
    LET ingredient_name == IF parsed.kind = "str" THEN parsed.value
                                                  ELSE parsed.name
        quantity == IF parsed.kind = "str" THEN None ELSE parsed.quantity
        unit == IF parsed.kind = "str" THEN Str(<<>>) ELSE parsed.unit
        preparation == IF parsed.kind = "str" THEN <<>>
                                              ELSE parsed.preparation
    IN  [recipe_id |-> recipe_id,
         original_text |-> ingredient_text,
         ingredient_name |-> ingredient_name,
         quantity |-> convert_quantity(quantity),
         unit |-> convert_unit(unit),
         preparation |-> preparation,
         category |-> categorize_ingredient(ingredient_name),
         position |-> idx]

\* k.replace(' ', '_')
ReplaceSpaces(k) == [i \in 1..Len(k) |-> IF k[i] = " " THEN "_" ELSE k[i]]

(***************************************************************************)
(* Ingredient lines the calls are given.                                   *)
(***************************************************************************)
SP == <<" ">>

test_ingredients ==
    << <<"2"," ","p","o","r","k"," ","c","u","t","l","e","t","s"," ",","," ","a","t"," ","r","o","o","m"," ","t","e","m","p","e","r","a","t","u","r","e"," ","(","2","0","0","g","/","7","o","z"," ","e","a","c","h",","," ","b","o","n","e"," ","i","n",")">>,
       <<"1"," ","t","b","s","p"," ","l","e","m","o","n"," ","p","e","p","p","e","r">>,
       <<"2"," ","t","b","s","p"," ","o","l","i","v","e"," ","o","i","l"," ",","," ","s","e","p","a","r","a","t","e","d">>,
       <<"2"," ","z","u","c","c","h","i","n","i","s"," ",","," ","s","l","i","c","e","d">>,
       <<"1","/","2"," ","c","u","p"," ","c","o","u","s","c","o","u","s">>,
       <<"5","0"," ","g"," ","/"," ","1",".","5"," ","o","z"," ","f","e","t","a"," ","c","h","e","e","s","e">> >>
\* leading quantities of the generated ingredient lines
QuantityTexts ==
    { <<"1">>,
      <<"5","0">>,
      <<"1","/","2">>,
      <<"1",".","5">> }

\* ingredient names of the generated ingredient lines
NameTexts ==
    { <<"f","e","t","a"," ","c","h","e","e","s","e">>,
      <<"l","e","m","o","n"," ","p","e","p","p","e","r">>,
      <<"g","a","r","l","i","c">> }

\* pieces free-form ingredient lines are assembled from
Tokens ==
    { <<"2">>,
      <<"1","/","2">>,
      <<" ">>,
      <<" ",","," ">>,
      <<"(">>,
      <<"/">>,
      <<".">>,
      <<"p","o","r","k">>,
      <<"c","u","p","s">>,
      <<"l">>,
      <<"s","a","l","t">> }

\* str.capitalize() of a lower-case word
capitalize(w) == [i \in 1..Len(w) |-> IF i = 1 THEN UpperChar(w[i]) ELSE w[i]]

\* a unit keyword as it may be written: any letter case, optional "s"
UnitForms(keyword) ==
    { keyword, keyword \o <<"s">>, upper(keyword), upper(keyword) \o <<"S">>,
      capitalize(keyword) }

AllUnitForms(keywords) ==
    UNION { UnitForms(keywords[k]) : k \in 1..Len(keywords) }

\* the quantities written with digits only
DigitTexts ==
    { qty \in QuantityTexts : \A i \in 1..Len(qty) : qty[i] \in Digits }

\* "<quantity> <unit> <name>", by name
UnitTextsOf(quantities) ==
    [name \in NameTexts |->
        { qty \o SP \o unit \o SP \o name :
            qty \in quantities, unit \in AllUnitForms(UNIT_KEYWORDS) }]

UnitTexts == UNION { UnitTextsOf(QuantityTexts)[name] : name \in NameTexts }

\* a second unit as it may be written
DualUnitForms(keywords) ==
    { keywords[k] : k \in 1..Len(keywords) }
        \cup { upper(keywords[k]) \o <<"S">> : k \in 1..Len(keywords) }

\* "<qty1> <unit1> / <qty2> <unit2> <name>", unit2 among keywords, by name
DualTextsOf(keywords) ==
    [name \in NameTexts |->
        { <<"5", "0">> \o SP \o UNIT_KEYWORDS[k1] \o <<" ", "/", " ">>
            \o qty2 \o SP \o unit2 \o SP \o name :
            k1 \in 1..Len(UNIT_KEYWORDS),
            qty2 \in {<<"2">>, <<"1", ".", "5">>},
            unit2 \in DualUnitForms(keywords) }]

DualTexts == UNION { DualTextsOf(UNIT_KEYWORDS)[name] : name \in NameTexts }

\* free-form lines: at most MaxTokens pieces, the empty line included
RECURSIVE TokenTextsOf(_)
TokenTextsOf(n) ==
    IF n = 0 THEN {<<>>}
    ELSE LET shorter == TokenTextsOf(n - 1)
         IN  shorter \cup { t \o tok : t \in shorter, tok \in Tokens }

TokenTexts == TokenTextsOf(MaxTokens)

FallbackTexts ==
    UnitTexts \cup DualTexts \cup TokenTexts
        \cup { test_ingredients[k] : k \in 1..Len(test_ingredients) }

(***************************************************************************)
(* Inputs of parse_ingredient_advanced, categorize_ingredient and          *)
(* insert_recipe.                                                          *)
(***************************************************************************)
MaxNameSpans == 2

MaxAmounts == 2

MaxNameWords == 3

MaxLines == 3

SeqsUpTo(S, n) == UNION { [1..k -> S] : k \in 0..n }

\* lines given to parse_ingredient_advanced: the examples of test.py and
\* lines with nothing after the quantity
ParseTexts ==
    { test_ingredients[k] : k \in 1..Len(test_ingredients) }
        \cup { <<>>, <<" ">>, <<"2">>, <<"1", " ", "c", "u", "p", " ">> }

SpanTexts == { <<"l","e","m","o","n"," ","p","e","p","p","e","r">>, <<"f","e","t","a">> }

Confidences == {60, 61, 90}

NameSpans == [text : SpanTexts, confidence : Confidences]

Quantities == { Fraction(1, 2), Str(<<"1","-","2">>) }

Units == { Str(<<"c","u","p">>), Unit(<<"g">>) }

Amounts == [quantity : Quantities, unit : Units]

Preparations == { None, [kind |-> "IngredientText", text |-> <<"s","l","i","c","e","d">>] }

Extractions ==
    { Raise("Exception") }
        \cup { ParsedIngredient(name, amount, preparation) :
                 name \in SeqsUpTo(NameSpans, MaxNameSpans),
                 amount \in SeqsUpTo(Amounts, MaxAmounts),
                 preparation \in Preparations }

\* every keyword of the table, as a name of its own
KeywordNames ==
    { <<"p","o","r","k">>,
      <<"c","h","i","c","k","e","n">>,
      <<"b","e","e","f">>,
      <<"l","a","m","b">>,
      <<"f","i","s","h">>,
      <<"s","a","l","m","o","n">>,
      <<"t","u","n","a">>,
      <<"s","h","r","i","m","p">>,
      <<"p","r","a","w","n","s">>,
      <<"t","o","f","u">>,
      <<"e","g","g","s">>,
      <<"t","u","r","k","e","y">>,
      <<"z","u","c","c","h","i","n","i">>,
      <<"c","a","p","s","i","c","u","m">>,
      <<"p","e","p","p","e","r">>,
      <<"o","n","i","o","n">>,
      <<"g","a","r","l","i","c">>,
      <<"t","o","m","a","t","o">>,
      <<"c","a","r","r","o","t">>,
      <<"b","r","o","c","c","o","l","i">>,
      <<"s","p","i","n","a","c","h">>,
      <<"l","e","t","t","u","c","e">>,
      <<"m","u","s","h","r","o","o","m">>,
      <<"c","o","u","s","c","o","u","s">>,
      <<"r","i","c","e">>,
      <<"p","a","s","t","a">>,
      <<"q","u","i","n","o","a">>,
      <<"b","r","e","a","d">>,
      <<"f","l","o","u","r">>,
      <<"c","h","e","e","s","e">>,
      <<"f","e","t","a">>,
      <<"m","i","l","k">>,
      <<"b","u","t","t","e","r">>,
      <<"c","r","e","a","m">>,
      <<"y","o","g","u","r","t">>,
      <<"m","i","n","t">>,
      <<"b","a","s","i","l">>,
      <<"p","a","r","s","l","e","y">>,
      <<"c","i","l","a","n","t","r","o">>,
      <<"t","h","y","m","e">>,
      <<"r","o","s","e","m","a","r","y">> }

\* pieces longer names are assembled from
NamePieces ==
    { <<"c","h","i","c","k","e","n">>,
      <<"C","H","E","E","S","E">>,
      <<"F","e","t","a">>,
      <<"p","e","p","p","e","r">>,
      <<"r","i","c","e">>,
      <<"m","i","n","t">>,
      <<"o","l","i","v","e"," ","o","i","l">>,
      <<" ">>,
      <<"e","g","g">>,
      <<"s">> }

RECURSIVE NamesOf(_)
NamesOf(n) ==
    IF n = 0 THEN {<<>>}
    ELSE LET shorter == NamesOf(n - 1)
         IN  shorter \cup { t \o piece : t \in shorter, piece \in NamePieces }

CategorizeNames ==
    NamesOf(MaxNameWords)
        \cup UNION { {name, upper(name), capitalize(name)} :
                       name \in KeywordNames }

\* ingredient lines of the imported recipes, each with what
\* parse_ingredient does on it
InsertLines ==
    { [text |-> test_ingredients[2],
       parsed |-> ParsedIngredient(
           <<[text |-> <<"l","e","m","o","n"," ","p","e","p","p","e","r">>, confidence |-> 90]>>,
           <<[quantity |-> Fraction(1, 1), unit |-> Unit(<<"t","b","s","p">>)]>>, None)],
      [text |-> test_ingredients[4],
       parsed |-> ParsedIngredient(
           <<[text |-> <<"z","u","c","c","h","i","n","i","s">>, confidence |-> 60]>>,
           <<[quantity |-> Fraction(2, 1), unit |-> Str(<<>>)]>>,
           [kind |-> "IngredientText", text |-> <<"s","l","i","c","e","d">>])],
      [text |-> test_ingredients[5], parsed |-> Raise("Exception")],
      [text |-> <<"1","-","2"," ","g","a","r","l","i","c"," ","c","l","o","v","e","s"," ",","," ","m","i","n","c","e","d">>,
       parsed |-> ParsedIngredient(
           <<[text |-> <<"g","a","r","l","i","c">>, confidence |-> 90]>>,
           <<[quantity |-> Str(<<"1","-","2">>), unit |-> Str(<<"c","l","o","v","e","s">>)]>>,
           [kind |-> "IngredientText", text |-> <<"m","i","n","c","e","d">>])],
      [text |-> <<","," ","t","o"," ","t","a","s","t","e">>, parsed |-> Raise("Exception")] }

Instructions == << <<"M","i","x",".">>, <<"B","a","k","e",".">> >>

Nutrition ==
    [kind |-> "dict",
     items |-> { [key |-> <<"t","o","t","a","l"," ","f","a","t">>, value |-> <<"5","g">>] }]

(***************************************************************************)
(* grabwebdata.py.  An element of the page is its tag name and the strings *)
(* inside it; a character outside ASCII is written by its code point.      *)
(***************************************************************************)
MaxElements == 4

\* the class [▢▪•◦◆■] of sanitize_ingredient
Bullets == {"U+25A2", "U+25AA", "U+2022", "U+25E6", "U+25C6", "U+25A0"}

\* the class [a-zA-Z0-9\s\.\,\-\(\)\/] of sanitize_ingredient
Allowed ==
    { LowerCase[i] : i \in 1..26 } \cup { UpperCase[i] : i \in 1..26 }
        \cup Digits \cup Whitespace \cup {".", ",", "-", "(", ")", "/"}

\* " ".join(strings)
RECURSIVE Join(_)
Join(strings) ==
    IF strings = <<>> THEN <<>>
    ELSE IF Len(strings) = 1 THEN strings[1]
    ELSE strings[1] \o <<" ">> \o Join(Tail(strings))

\* el.get_text(separator=" ", strip=True): the strings of the element,
\* each stripped, the empty ones dropped, joined by a space
clean_text(el) ==
    IF el = None THEN <<>>
    ELSE LET stripped == [k \in 1..Len(el.strings) |-> strip(el.strings[k])]
         IN  Join(SelectSeq(stripped, LAMBDA piece : piece # <<>>))

\* re.sub(r"\s+", " ", text)
RECURSIVE CollapseWhitespace(_)
CollapseWhitespace(text) ==
    IF text = <<>> THEN <<>>
    ELSE IF text[1] \in Whitespace
    THEN <<" ">> \o CollapseWhitespace(From(text, RunLen(Whitespace, text, 1) + 1))
    ELSE <<text[1]>> \o CollapseWhitespace(Tail(text))

sanitize_ingredient(text) ==
    IF text = <<>> THEN <<>>
    ELSE LET unbulleted == SelectSeq(text, LAMBDA c : c \notin Bullets)
             kept == SelectSeq(unbulleted, LAMBDA c : c \in Allowed)
         IN  strip(CollapseWhitespace(kept))

\* "ingredient" in heading
IsIngredientHeading_CaseSensitive(heading) ==
    Contains(heading, <<"i","n","g","r","e","d","i","e","n","t">>)

\* "ingredient" in heading.lower()
IsIngredientHeading(heading) ==
    Contains(lower(heading), <<"i","n","g","r","e","d","i","e","n","t">>)

\* "instruction" in heading, for heading = clean_text(el).lower()
IsInstructionHeading(heading) ==
    Contains(lower(heading), <<"i","n","s","t","r","u","c","t","i","o","n">>)

\* ingredients[section] = value
SetItem(dict, section, value) ==
    [key \in DOMAIN dict \cup {section} |->
        IF key = section THEN value ELSE dict[key]]

H3(heading) == [name |-> "h3", strings |-> <<heading>>]

Li(strings) == [name |-> "li", strings |-> strings]

\* the h3 and li elements pages are made of: two ingredient headings, an
\* instruction heading, another heading, and two list items
Elements ==
    { H3(<<"I","n","g","r","e","d","i","e","n","t","s">>),
      H3(<<"S","A","U","C","E"," ","I","N","G","R","E","D","I","E","N","T","S">>),
      H3(<<"I","n","s","t","r","u","c","t","i","o","n","s">>),
      H3(<<"N","o","t","e","s">>),
      Li(<< <<"U+25A2">>, <<"1"," "," ","e","g","g">> >>),
      Li(<< <<" ","s","a","l","t">>, <<"(","f","i","n","e",")","!">> >>) }

Pages == SeqsUpTo(Elements, MaxElements)

(***************************************************************************)
(* Quantities convert_quantity is given.                                   *)
(***************************************************************************)
MaxQuantityPieces == 3

IntValue(n) == [kind |-> "int", num |-> n, den |-> 1]

\* pieces the quantity strings are written with
QuantityPieces ==
    { <<"0">>, <<"1">>, <<"2">>, <<"/">>, <<".">>, <<"-">>, <<" ">>,
      <<"i","n","f">>, <<"n","a","n">>, <<"x">> }

RECURSIVE QuantityStringsOf(_)
QuantityStringsOf(n) ==
    IF n = 0 THEN {<<>>}
    ELSE LET shorter == QuantityStringsOf(n - 1)
         IN  shorter \cup { t \o piece : t \in shorter, piece \in QuantityPieces }

\* None, Fractions, ints, floats and strings
QuantityValues ==
    {None}
        \cup { Fraction(n, d) : n \in -1..3, d \in 1..3 }
        \cup { IntValue(n) : n \in -1..3 }
        \cup { Float(n, 2) : n \in -1..3 }
        \cup { Str(t) : t \in QuantityStringsOf(MaxQuantityPieces) }

(***************************************************************************)
(* State.                                                                  *)
(***************************************************************************)
VARIABLES
    pc,                 \* the statement the running call or script is at
    ingredient_text,    \* argument of the parsing call
    nlp,                \* what parse_ingredient does on the call's line(s)
    result,             \* what the parsing call returned or raised
    stdout,             \* the lines printed so far
    ingredient_name,    \* argument of categorize_ingredient
    category,           \* what categorize_ingredient returned
    recipe_data,        \* argument of insert_recipe
    db_fault,           \* the table whose insert the database rejects
    db,                 \* rows of the tables recipes, ingredients, ...
    idx,                \* insert_recipe: position of the line being parsed
    parsed_ingredients, \* insert_recipe: rows built so far
    recipe_id,          \* insert_recipe: id of the inserted recipe row
    returned,           \* what insert_recipe returned
    calls,              \* the calls a session made so far, with their results
    content_div,        \* the h3 and li elements of the page, in document order
    el,                 \* position in content_div of the element looked at
    ingredients,        \* parse_ingredients: section heading -> items
    current_section,    \* parse_ingredients: heading items are collected under
    instructions,       \* parse_instructions: items collected
    in_instructions,    \* parse_instructions: under an instruction heading
    recipe,             \* what try_scrape_recipe returned
    quantity,           \* argument of convert_quantity
    converted,          \* what convert_quantity returned
    json_files,         \* the *.json files of the directory, in glob order
    filepath,           \* position in json_files of the file being imported
    success_count,      \* import_recipes_from_directory: recipes imported
    failed_recipes,     \* import_recipes_from_directory: names of failed files
    auto_tag,           \* argument auto_tag of import_recipes_from_directory
    tagged              \* the calls of auto_tag_recipe made so far

parseVars == <<ingredient_text, nlp, result>>

categoryVars == <<ingredient_name, category>>

insertVars ==
    <<recipe_data, db_fault, db, idx, parsed_ingredients, recipe_id, returned>>

sessionVars == <<ingredient_categories, calls>>

scrapeVars ==
    <<content_div, el, ingredients, current_section, instructions,
      in_instructions, recipe>>

convertVars == <<quantity, converted>>

importVars ==
    <<json_files, filepath, success_count, failed_recipes, auto_tag, tagged>>

vars ==
    <<pc, parseVars, stdout, categoryVars, insertVars, sessionVars, scrapeVars,
      convertVars, importVars>>

Missing == [kind |-> "missing"]

Pending == [kind |-> "pending"]

Id(n) == [kind |-> "int", value |-> n]

EmptyDb ==
    [recipes |-> {}, ingredients |-> {}, instructions |-> {}, nutrition |-> {}]

NoParse ==
    /\ ingredient_text = <<>>
    /\ nlp = <<>>
    /\ result = None

NoCategory ==
    /\ ingredient_name = <<>>
    /\ category = "unset"

\* the module is loaded and no call was made
NoSession ==
    /\ ingredient_categories = INGREDIENT_CATEGORIES
    /\ calls = <<>>

\* no page is being scraped
NoScrape ==
    /\ content_div = <<>>
    /\ el = 0
    /\ ingredients = <<>>
    /\ current_section = None
    /\ instructions = <<>>
    /\ in_instructions = FALSE
    /\ recipe = Pending

\* convert_quantity is not being called
NoConvert ==
    /\ quantity = None
    /\ converted = Pending

\* no directory is being imported
NoImport ==
    /\ json_files = <<>>
    /\ filepath = 0
    /\ success_count = 0
    /\ failed_recipes = <<>>
    /\ auto_tag = TRUE
    /\ tagged = <<>>

NoInsert ==
    /\ recipe_data = None
    /\ db_fault = "none"
    /\ db = EmptyDb
    /\ idx = 0
    /\ parsed_ingredients = <<>>
    /\ recipe_id = None
    /\ returned = Pending

(***************************************************************************)
(* fallback_parse called on its own.                                       *)
(***************************************************************************)
InitFallback ==
    /\ pc = "fallback_parse"
    /\ ingredient_text \in FallbackTexts
    /\ nlp = <<>>
    /\ result = None
    /\ stdout = <<>>
    /\ NoCategory
    /\ NoInsert
    /\ NoSession
    /\ NoScrape
    /\ NoConvert
    /\ NoImport

FallbackParse ==
    /\ pc = "fallback_parse"
    /\ result' = fallback_parse(ingredient_text)
    /\ pc' = "returned"
    /\ UNCHANGED <<ingredient_text, nlp, stdout, categoryVars, insertVars>>
    /\ UNCHANGED <<sessionVars, scrapeVars, convertVars, importVars>>

NextFallback == FallbackParse

SpecFallback == InitFallback /\ [][NextFallback]_vars

(***************************************************************************)
(* parse_ingredient_advanced, called as the loop of test.py calls it:      *)
(* parse the line, categorize parsed['name'], print the fields.            *)
(***************************************************************************)
\* a line is printed only when the extraction itself raised
ParsePrints_OnRaiseOnly(text, parsed) ==
    IF parsed.kind # "raise" THEN <<>>
    ELSE <<ParseFailedLine(text, parsed)>>

\* what parse_ingredient_advanced prints: one line when it falls back
ParsePrints(text, parsed) ==
    IF ParseError(parsed) = "none" THEN <<>>
    ELSE <<ParseFailedLine(text, parsed)>>

InitParse ==
    /\ pc = "parse_ingredient_advanced"
    /\ ingredient_text \in ParseTexts
    /\ nlp \in { <<parsed>> : parsed \in Extractions }
    /\ result = None
    /\ stdout = <<>>
    /\ NoCategory
    /\ NoInsert
    /\ NoSession
    /\ NoScrape
    /\ NoConvert
    /\ NoImport

ParseIngredientAdvanced ==
    /\ pc = "parse_ingredient_advanced"
    /\ result' = parse_ingredient_advanced(ingredient_text, nlp[1])
    /\ stdout' = stdout \o ParsePrints(ingredient_text, nlp[1])
    /\ pc' = "returned"
    /\ UNCHANGED <<ingredient_text, nlp, categoryVars, insertVars>>
    /\ UNCHANGED <<sessionVars, scrapeVars, convertVars, importVars>>

\* test.py line 18: category = categorize_ingredient(parsed['name'])
DriverCategorize ==
    /\ pc = "returned"
    /\ result.kind # "raise"
    /\ IF result.kind = "dict"
       THEN /\ ingredient_name' = result.name
            /\ category' = categorize_ingredient(result.name)
            /\ pc' = "print"
       ELSE /\ pc' = "TypeError"
            /\ UNCHANGED categoryVars
    /\ UNCHANGED <<parseVars, stdout, insertVars>>
    /\ UNCHANGED <<sessionVars, scrapeVars, convertVars, importVars>>

\* test.py lines 19-25: the fields of parsed are printed
DriverPrint ==
    /\ pc = "print"
    /\ stdout' = stdout \o
           <<[original |-> ingredient_text, name |-> result.name,
              quantity |-> result.quantity, unit |-> result.unit,
              preparation |-> result.preparation, category |-> category,
              valid |-> result.parsed_successfully]>>
    /\ pc' = "done"
    /\ UNCHANGED <<parseVars, categoryVars, insertVars>>
    /\ UNCHANGED <<sessionVars, scrapeVars, convertVars, importVars>>

NextParse == ParseIngredientAdvanced \/ DriverCategorize \/ DriverPrint

SpecParse == InitParse /\ [][NextParse]_vars

(***************************************************************************)
(* categorize_ingredient called on its own.                                *)
(***************************************************************************)
InitCategorize ==
    /\ pc = "categorize_ingredient"
    /\ ingredient_name \in CategorizeNames
    /\ category = "unset"
    /\ NoParse
    /\ stdout = <<>>
    /\ NoInsert
    /\ NoSession
    /\ NoScrape
    /\ NoConvert
    /\ NoImport

\* the category looked up is taken out of the table
CategorizeIngredient_PopsCategory ==
    /\ pc = "categorize_ingredient"
    /\ category' = categorize_ingredient(ingredient_name)
    /\ pc' = "returned"
    /\ UNCHANGED <<ingredient_name, parseVars, stdout, insertVars>>
    /\ ingredient_categories' =
          SelectSeq(ingredient_categories,
                    LAMBDA entry : entry.category # category')
    /\ UNCHANGED <<calls, scrapeVars, convertVars, importVars>>

CategorizeIngredient ==
    /\ pc = "categorize_ingredient"
    /\ category' = categorize_ingredient(ingredient_name)
    /\ pc' = "returned"
    /\ UNCHANGED <<ingredient_name, parseVars, stdout, insertVars>>
    /\ UNCHANGED <<sessionVars, scrapeVars, convertVars, importVars>>

NextCategorize == CategorizeIngredient

SpecCategorize == InitCategorize /\ [][NextCategorize]_vars

(***************************************************************************)
(* insert_recipe.  Every insert(...).execute() is a step of its own: the   *)
(* database either stores the rows or raises.                              *)
(***************************************************************************)
\* recipe_data['ingredients'].get('Ingredients', [])
ingredients_list ==
    IF "Ingredients" \in DOMAIN recipe_data.ingredients.sections
    THEN recipe_data.ingredients.sections["Ingredients"]
    ELSE <<>>

InitInsert ==
    /\ pc = "insert_recipe"
    /\ \E lines \in SeqsUpTo(InsertLines, MaxLines),
          shape \in {"missing", "other", "main", "both"},
          title \in {Missing, Str(<<"R", "i", "b", "s">>)},
          steps \in {Missing} \cup
              { [kind |-> "list", items |-> items] :
                  items \in {<<>>, <<Instructions[1]>>, Instructions} },
          nutrition \in {Missing, Nutrition} :
          LET texts == [k \in 1..Len(lines) |-> lines[k].text]
              sauce == "Sauce Ingredients" :> <<test_ingredients[3]>>
          IN  /\ shape \in {"missing", "other"} => lines = <<>>
              /\ nlp = [k \in 1..Len(lines) |-> lines[k].parsed]
              /\ recipe_data =
                   [title |-> title,
                    ingredients |->
                        CASE shape = "missing" -> Missing
                          [] shape = "other" ->
                               [kind |-> "dict", sections |-> sauce]
                          [] shape = "main" ->
                               [kind |-> "dict",
                                sections |-> "Ingredients" :> texts]
                          [] shape = "both" ->
                               [kind |-> "dict",
                                sections |-> ("Ingredients" :> texts) @@ sauce],
                    instructions |-> steps,
                    nutrition |-> nutrition]
    /\ db_fault \in {"none", "recipes", "ingredients", "instructions",
                     "nutrition"}
    /\ db = EmptyDb
    /\ idx = 0
    /\ parsed_ingredients = <<>>
    /\ recipe_id = None
    /\ returned = Pending
    /\ ingredient_text = <<>>
    /\ result = None
    /\ stdout = <<>>
    /\ NoCategory
    /\ NoSession
    /\ NoScrape
    /\ NoConvert
    /\ NoImport

\* except Exception as e: the error is printed and None is returned
Except(prints, exc) ==
    /\ stdout' = stdout \o prints \o <<[line |-> "Error inserting recipe",
                                        error |-> exc]>>
    /\ returned' = None
    /\ pc' = "done"

\* return recipe_id
Return ==
    /\ returned' = recipe_id
    /\ pc' = "done"

\* lines 84-91: the main recipe row
InsertRecipeRow ==
    /\ pc = "insert_recipe"
    /\ IF recipe_data.title = Missing
       THEN /\ Except(<<>>, "KeyError")
            /\ UNCHANGED <<db, recipe_id, idx, parsed_ingredients>>
       ELSE IF db_fault = "recipes"
       THEN /\ Except(<<>>, "APIError")
            /\ UNCHANGED <<db, recipe_id, idx, parsed_ingredients>>
       ELSE /\ db' = [db EXCEPT !.recipes = @ \cup
                        {[id |-> Cardinality(db.recipes) + 1,
                          title |-> recipe_data.title.value]}]
            /\ recipe_id' = Id(Cardinality(db.recipes) + 1)
            /\ idx' = 1
            /\ parsed_ingredients' = <<>>
            /\ stdout' = stdout \o <<[line |-> "Inserted recipe"]>>
            /\ pc' = IF recipe_data.ingredients # Missing
                     THEN "parse_ingredients" ELSE "insert_instructions"
            /\ UNCHANGED returned
    /\ UNCHANGED <<parseVars, categoryVars, recipe_data, db_fault>>
    /\ UNCHANGED <<sessionVars, scrapeVars, convertVars, importVars>>

\* lines 98-132: one turn of the loop over ingredients_list
ParseIngredientLine ==
    /\ pc = "parse_ingredients"
    /\ idx <= Len(ingredients_list)
    /\ LET text == ingredients_list[idx]
           parsed == parse_ingredient_advanced(text, nlp[idx])
       IN  /\ ingredient_text' = text
           /\ result' = parsed
           /\ IF parsed.kind = "raise"
              THEN /\ Except(ParsePrints(text, nlp[idx]), parsed.exc)
                   /\ UNCHANGED <<idx, parsed_ingredients>>
              ELSE /\ parsed_ingredients' =
                        Append(parsed_ingredients,
                               IngredientRow(recipe_id, text, parsed, idx))
                   /\ idx' = idx + 1
                   /\ stdout' = stdout \o ParsePrints(text, nlp[idx])
                   /\ UNCHANGED <<pc, returned>>
    /\ UNCHANGED <<nlp, categoryVars, recipe_data, db_fault, db, recipe_id>>
    /\ UNCHANGED <<sessionVars, scrapeVars, convertVars, importVars>>

\* the rows inserted without the first one
InsertIngredients_SkipsFirstRow ==
    /\ pc = "parse_ingredients"
    /\ idx > Len(ingredients_list)
    /\ IF parsed_ingredients = <<>>
       THEN /\ pc' = "insert_instructions"
            /\ UNCHANGED <<db, stdout, returned>>
       ELSE IF db_fault = "ingredients"
       THEN /\ Except(<<>>, "APIError")
            /\ UNCHANGED db
       ELSE /\ db' = [db EXCEPT !.ingredients = @ \cup
                        { parsed_ingredients[k] :
                            k \in 2..Len(parsed_ingredients) }]
            /\ stdout' = stdout \o <<[line |-> "Inserted ingredients"]>>
            /\ pc' = "insert_instructions"
            /\ UNCHANGED returned
    /\ UNCHANGED <<parseVars, categoryVars, recipe_data, db_fault, idx,
                   parsed_ingredients, recipe_id>>
    /\ UNCHANGED <<sessionVars, scrapeVars, convertVars, importVars>>

\* lines 134-136: the rows of the whole list are inserted at once
InsertIngredients ==
    /\ pc = "parse_ingredients"
    /\ idx > Len(ingredients_list)
    /\ IF parsed_ingredients = <<>>
       THEN /\ pc' = "insert_instructions"
            /\ UNCHANGED <<db, stdout, returned>>
       ELSE IF db_fault = "ingredients"
       THEN /\ Except(<<>>, "APIError")
            /\ UNCHANGED db
       ELSE /\ db' = [db EXCEPT !.ingredients = @ \cup
                        { parsed_ingredients[k] :
                            k \in 1..Len(parsed_ingredients) }]
            /\ stdout' = stdout \o <<[line |-> "Inserted ingredients"]>>
            /\ pc' = "insert_instructions"
            /\ UNCHANGED returned
    /\ UNCHANGED <<parseVars, categoryVars, recipe_data, db_fault, idx,
                   parsed_ingredients, recipe_id>>
    /\ UNCHANGED <<sessionVars, scrapeVars, convertVars, importVars>>

\* lines 145-157, and 172 when there is nothing more to insert
InsertInstructions ==
    /\ pc = "insert_instructions"
    /\ IF recipe_data.instructions = Missing
       THEN /\ Return
            /\ UNCHANGED <<db, stdout>>
       ELSE LET items == recipe_data.instructions.items
                after == IF recipe_data.nutrition # Missing
                         THEN /\ pc' = "insert_nutrition"
                              /\ UNCHANGED returned
                         ELSE Return
            IN  IF items = <<>>
                THEN /\ after
                     /\ UNCHANGED <<db, stdout>>
                ELSE IF db_fault = "instructions"
                THEN /\ Except(<<>>, "APIError")
                     /\ UNCHANGED db
                ELSE /\ db' = [db EXCEPT !.instructions = @ \cup
                                 { [recipe_id |-> recipe_id,
                                    step_number |-> k,
                                    instruction_text |-> items[k]] :
                                     k \in 1..Len(items) }]
                     /\ stdout' = stdout \o
                                    <<[line |-> "Inserted instructions"]>>
                     /\ after
    /\ UNCHANGED <<parseVars, categoryVars, recipe_data, db_fault, idx,
                   parsed_ingredients, recipe_id>>
    /\ UNCHANGED <<sessionVars, scrapeVars, convertVars, importVars>>

\* lines 160-172: reached only inside "if 'instructions' in recipe_data"
InsertNutrition ==
    /\ pc = "insert_nutrition"
    /\ IF db_fault = "nutrition"
       THEN /\ Except(<<>>, "APIError")
            /\ UNCHANGED db
       ELSE /\ db' = [db EXCEPT !.nutrition = @ \cup
                        {[recipe_id |-> recipe_id,
                          facts |-> { [key |-> ReplaceSpaces(item.key),
                                       value |-> item.value] :
                                        item \in recipe_data.nutrition.items }]}]
            /\ stdout' = stdout \o <<[line |-> "Inserted nutrition data"]>>
            /\ Return
    /\ UNCHANGED <<parseVars, categoryVars, recipe_data, db_fault, idx,
                   parsed_ingredients, recipe_id>>
    /\ UNCHANGED <<sessionVars, scrapeVars, convertVars, importVars>>

NextInsert ==
    \/ InsertRecipeRow
    \/ ParseIngredientLine
    \/ InsertIngredients
    \/ InsertInstructions
    \/ InsertNutrition

SpecInsert == InitInsert /\ [][NextInsert]_vars

(***************************************************************************)
(* A session: a program that has loaded utils.py and import_recipes.py     *)
(* calls fallback_parse, parse_ingredient_advanced, categorize_ingredient  *)
(* and insert_recipe one after the other, in any order, against the same   *)
(* module globals and the same database.                                   *)
(***************************************************************************)
MaxCalls == 3

CallNames == { <<"p","o","r","k">>, <<"F","e","t","a">> }

CallLines ==
    { line \in InsertLines :
        line.text \in {test_ingredients[2], test_ingredients[4]} }

MalformedLines ==
    { line \in InsertLines : line.text = <<","," ","t","o"," ","t","a","s","t","e">> }

\* the ingredient lists of the recipes a session inserts: two good lines,
\* and a good line followed by a malformed one
CallRecipeLines ==
    { <<first, second>> :
        first \in { line \in CallLines : line.text = test_ingredients[2] },
        second \in { line \in CallLines : line.text = test_ingredients[4] }
                      \cup MalformedLines }

InitCalls ==
    /\ pc = "idle"
    /\ NoParse
    /\ stdout = <<>>
    /\ NoCategory
    /\ NoInsert
    /\ NoSession
    /\ NoScrape
    /\ NoConvert
    /\ NoImport

\* the caller is between two calls
Idle == pc = "idle" /\ Len(calls) < MaxCalls

Called(fn, arg) == Append(calls, [fn |-> fn, arg |-> arg, ret |-> "pending"])

CallFallbackParse ==
    /\ Idle
    /\ \E line \in CallLines :
          /\ ingredient_text' = line.text
          /\ calls' = Called("fallback_parse", line.text)
    /\ nlp' = <<>>
    /\ result' = None
    /\ pc' = "fallback_parse"
    /\ UNCHANGED <<stdout, categoryVars, insertVars, ingredient_categories>>
    /\ UNCHANGED <<scrapeVars, convertVars, importVars>>

CallParseIngredientAdvanced ==
    /\ Idle
    /\ \E line \in CallLines :
          /\ ingredient_text' = line.text
          /\ nlp' = <<line.parsed>>
          /\ calls' = Called("parse_ingredient_advanced", line.text)
    /\ result' = None
    /\ pc' = "parse_ingredient_advanced"
    /\ UNCHANGED <<stdout, categoryVars, insertVars, ingredient_categories>>
    /\ UNCHANGED <<scrapeVars, convertVars, importVars>>

CallCategorizeIngredient ==
    /\ Idle
    /\ \E name \in CallNames :
          /\ ingredient_name' = name
          /\ calls' = Called("categorize_ingredient", name)
    /\ category' = "unset"
    /\ pc' = "categorize_ingredient"
    /\ UNCHANGED <<parseVars, stdout, insertVars, ingredient_categories>>
    /\ UNCHANGED <<scrapeVars, convertVars, importVars>>

CallInsertRecipe ==
    /\ Idle
    /\ \E lines \in CallRecipeLines :
          /\ nlp' = [k \in 1..Len(lines) |-> lines[k].parsed]
          /\ recipe_data' =
                [title |-> Str(<<"R", "i", "b", "s">>),
                 ingredients |->
                     [kind |-> "dict",
                      sections |-> "Ingredients" :>
                          [k \in 1..Len(lines) |-> lines[k].text]],
                 instructions |-> [kind |-> "list", items |-> Instructions],
                 nutrition |-> Nutrition]
    /\ calls' = Called("insert_recipe", <<>>)
    /\ db_fault' = "none"
    /\ idx' = 0
    /\ parsed_ingredients' = <<>>
    /\ recipe_id' = None
    /\ returned' = Pending
    /\ pc' = "insert_recipe"
    /\ UNCHANGED <<ingredient_text, result, stdout, categoryVars, db,
                   ingredient_categories>>
    /\ UNCHANGED <<scrapeVars, convertVars, importVars>>

\* the call returns (or its exception reaches the caller, who goes on)
ReturnToCaller ==
    /\ pc \in {"returned", "done"}
    /\ calls' = [calls EXCEPT ![Len(calls)].ret =
                    IF calls[Len(calls)].fn = "categorize_ingredient"
                    THEN category ELSE "returned"]
    /\ pc' = "idle"
    /\ UNCHANGED <<parseVars, stdout, categoryVars, insertVars,
                   ingredient_categories>>
    /\ UNCHANGED <<scrapeVars, convertVars, importVars>>

NextCalls ==
    \/ CallFallbackParse
    \/ CallParseIngredientAdvanced
    \/ CallCategorizeIngredient
    \/ CallInsertRecipe
    \/ ReturnToCaller
    \/ FallbackParse
    \/ ParseIngredientAdvanced
    \/ CategorizeIngredient
    \/ NextInsert

SpecCalls == InitCalls /\ [][NextCalls]_vars

(***************************************************************************)
(* The scraper: pullfromurl runs parse_ingredients and then                *)
(* parse_instructions over the same elements, and try_scrape_recipe drops  *)
(* a recipe without ingredients.  Each turn of a loop is a step.           *)
(***************************************************************************)
InitScrape ==
    /\ pc = "parse_ingredients"
    /\ content_div \in Pages
    /\ el = 1
    /\ ingredients = <<>>
    /\ current_section = None
    /\ instructions = <<>>
    /\ in_instructions = FALSE
    /\ recipe = Pending
    /\ NoParse
    /\ stdout = <<>>
    /\ NoCategory
    /\ NoInsert
    /\ NoSession
    /\ NoConvert
    /\ NoImport

\* grabwebdata.py lines 25-39: one turn of the loop of parse_ingredients
ParseIngredientsElement ==
    /\ pc = "parse_ingredients"
    /\ el <= Len(content_div)
    /\ IF content_div[el].name = "h3"
       THEN LET heading == clean_text(content_div[el])
            IN  IF IsIngredientHeading(heading)
                THEN /\ current_section' = Str(heading)
                     /\ ingredients' = SetItem(ingredients, heading, <<>>)
                ELSE /\ current_section' = None
                     /\ UNCHANGED ingredients
       ELSE IF current_section # None /\ current_section.value # <<>>
       THEN /\ ingredients' =
                 [ingredients EXCEPT ![current_section.value] =
                     Append(@, sanitize_ingredient(clean_text(content_div[el])))]
            /\ UNCHANGED current_section
       ELSE UNCHANGED <<ingredients, current_section>>
    /\ el' = el + 1
    /\ UNCHANGED <<pc, content_div, instructions, in_instructions, recipe>>
    /\ UNCHANGED <<parseVars, stdout, categoryVars, insertVars, sessionVars,
                   convertVars, importVars>>

\* line 41: return ingredients; line 122 then calls parse_instructions
ParseIngredientsReturn ==
    /\ pc = "parse_ingredients"
    /\ el > Len(content_div)
    /\ pc' = "parse_instructions"
    /\ el' = 1
    /\ UNCHANGED <<content_div, ingredients, current_section, instructions,
                   in_instructions, recipe>>
    /\ UNCHANGED <<parseVars, stdout, categoryVars, insertVars, sessionVars,
                   convertVars, importVars>>

\* lines 48-54: one turn of the loop of parse_instructions
ParseInstructionsElement ==
    /\ pc = "parse_instructions"
    /\ el <= Len(content_div)
    /\ IF content_div[el].name = "h3"
       THEN /\ in_instructions' =
                 IsInstructionHeading(clean_text(content_div[el]))
            /\ UNCHANGED instructions
       ELSE IF in_instructions
       THEN /\ instructions' =
                 Append(instructions, clean_text(content_div[el]))
            /\ UNCHANGED in_instructions
       ELSE UNCHANGED <<instructions, in_instructions>>
    /\ el' = el + 1
    /\ UNCHANGED <<pc, content_div, ingredients, current_section, recipe>>
    /\ UNCHANGED <<parseVars, stdout, categoryVars, insertVars, sessionVars,
                   convertVars, importVars>>

\* line 56: return instructions
ParseInstructionsReturn ==
    /\ pc = "parse_instructions"
    /\ el > Len(content_div)
    /\ pc' = "try_scrape_recipe"
    /\ UNCHANGED <<content_div, el, ingredients, current_section,
                   instructions, in_instructions, recipe>>
    /\ UNCHANGED <<parseVars, stdout, categoryVars, insertVars, sessionVars,
                   convertVars, importVars>>

\* lines 134-139: a recipe whose ingredients dict is empty is dropped
TryScrapeRecipe ==
    /\ pc = "try_scrape_recipe"
    /\ recipe' = IF ingredients = <<>> THEN None
                 ELSE [kind |-> "dict", ingredients |-> ingredients,
                       instructions |-> instructions]
    /\ pc' = "done"
    /\ UNCHANGED <<content_div, el, ingredients, current_section,
                   instructions, in_instructions>>
    /\ UNCHANGED <<parseVars, stdout, categoryVars, insertVars, sessionVars,
                   convertVars, importVars>>

NextScrape ==
    \/ ParseIngredientsElement
    \/ ParseIngredientsReturn
    \/ ParseInstructionsElement
    \/ ParseInstructionsReturn
    \/ TryScrapeRecipe

SpecScrape == InitScrape /\ [][NextScrape]_vars

(***************************************************************************)
(* convert_quantity called on its own.                                     *)
(***************************************************************************)
InitConvert ==
    /\ pc = "convert_quantity"
    /\ quantity \in QuantityValues
    /\ converted = Pending
    /\ NoParse
    /\ stdout = <<>>
    /\ NoCategory
    /\ NoInsert
    /\ NoSession
    /\ NoScrape
    /\ NoImport

ConvertQuantity ==
    /\ pc = "convert_quantity"
    /\ converted' = convert_quantity(quantity)
    /\ pc' = "returned"
    /\ UNCHANGED <<quantity, parseVars, stdout, categoryVars, insertVars,
                   sessionVars, scrapeVars, importVars>>

NextConvert == ConvertQuantity

SpecConvert == InitConvert /\ [][NextConvert]_vars

(***************************************************************************)
(* import_recipes_from_directory.  A file is unreadable, holds invalid     *)
(* JSON, or holds a recipe; the k-th file of the directory is named k      *)
(* (the files of one directory have different names).  insert_recipe runs  *)
(* as above, auto_tag_recipe is a step of its own.                         *)
(***************************************************************************)
MaxFiles == 2

\* recipes in the files: two good lines, a good and a malformed line, and
\* two good lines with an ingredients insert the database rejects
FileRecipes ==
    { [kind |-> "recipe", lines |-> lines, db_fault |-> "none"] :
        lines \in CallRecipeLines }
      \cup { [kind |-> "recipe", lines |-> lines, db_fault |-> "ingredients"] :
               lines \in { l \in CallRecipeLines : l[2] \notin MalformedLines } }

FileContents ==
    { [kind |-> "unreadable"], [kind |-> "invalid JSON"] } \cup FileRecipes

InitImport ==
    /\ pc = "import_recipes_from_directory"
    /\ json_files \in SeqsUpTo(FileContents, MaxFiles)
    /\ auto_tag \in BOOLEAN
    /\ filepath = 0
    /\ success_count = 0
    /\ failed_recipes = <<>>
    /\ tagged = <<>>
    /\ NoParse
    /\ stdout = <<>>
    /\ NoCategory
    /\ NoInsert
    /\ NoSession
    /\ NoScrape
    /\ NoConvert

\* lines 196-198: nothing to import
ImportNoFiles ==
    /\ pc = "import_recipes_from_directory"
    /\ json_files = <<>>
    /\ stdout' = stdout \o <<[line |-> "No JSON files found"]>>
    /\ pc' = "imported"
    /\ UNCHANGED <<parseVars, categoryVars, insertVars, sessionVars,
                   scrapeVars, convertVars, importVars>>

\* lines 206-209 and 222-227: the next file cannot be opened or decoded
ImportReadFails ==
    /\ pc = "import_recipes_from_directory"
    /\ filepath < Len(json_files)
    /\ json_files[filepath + 1].kind \in {"unreadable", "invalid JSON"}
    /\ filepath' = filepath + 1
    /\ stdout' = stdout \o
          <<[line |-> IF json_files[filepath + 1].kind = "invalid JSON"
                      THEN "Invalid JSON" ELSE "Error reading",
             file |-> filepath + 1]>>
    /\ failed_recipes' = Append(failed_recipes, filepath + 1)
    /\ UNCHANGED <<json_files, success_count, auto_tag, tagged>>
    /\ UNCHANGED <<pc, parseVars, categoryVars, insertVars, sessionVars,
                   scrapeVars, convertVars>>

\* lines 206-211: the next file is loaded and insert_recipe is called
ImportCallInsert ==
    /\ pc = "import_recipes_from_directory"
    /\ filepath < Len(json_files)
    /\ json_files[filepath + 1].kind = "recipe"
    /\ filepath' = filepath + 1
    /\ LET lines == json_files[filepath + 1].lines
       IN  /\ nlp' = [k \in 1..Len(lines) |-> lines[k].parsed]
           /\ recipe_data' =
                 [title |-> Str(<<"R", "i", "b", "s">>),
                  ingredients |->
                      [kind |-> "dict",
                       sections |-> "Ingredients" :>
                           [k \in 1..Len(lines) |-> lines[k].text]],
                  instructions |-> [kind |-> "list", items |-> Instructions],
                  nutrition |-> Nutrition]
    /\ db_fault' = json_files[filepath + 1].db_fault
    /\ idx' = 0
    /\ parsed_ingredients' = <<>>
    /\ recipe_id' = None
    /\ returned' = Pending
    /\ pc' = "insert_recipe"
    /\ UNCHANGED <<json_files, success_count, failed_recipes, auto_tag, tagged>>
    /\ UNCHANGED <<ingredient_text, result, stdout, categoryVars, db,
                   sessionVars, scrapeVars, convertVars>>

\* if recipe_id: a value insert_recipe returns is true unless None or 0
Truthy(value) == value.kind = "int" /\ value.value # 0

\* lines 213-220: the recipe is counted, or its file listed as failed
ImportCount ==
    /\ pc = "done"
    /\ filepath > 0
    /\ IF Truthy(returned)
       THEN /\ success_count' = success_count + 1
            /\ pc' = IF auto_tag THEN "auto_tag_recipe"
                                 ELSE "import_recipes_from_directory"
            /\ UNCHANGED failed_recipes
       ELSE /\ failed_recipes' = Append(failed_recipes, filepath)
            /\ pc' = "import_recipes_from_directory"
            /\ UNCHANGED success_count
    /\ UNCHANGED <<json_files, filepath, auto_tag, tagged>>
    /\ UNCHANGED <<parseVars, stdout, categoryVars, insertVars, sessionVars,
                   scrapeVars, convertVars>>

\* the exception of the rpc leaves auto_tag_recipe and reaches the except
\* clause of the import loop
AutoTagRecipe_Propagates ==
    /\ pc = "auto_tag_recipe"
    /\ \E raised \in BOOLEAN :
          /\ tagged' = Append(tagged, [file |-> filepath, recipe_id |-> returned,
                                       raised |-> raised])
          /\ stdout' = stdout \o
                <<[line |-> IF raised THEN "Error reading"
                                      ELSE "Auto-tagged recipe"]>>
          /\ failed_recipes' = IF raised THEN Append(failed_recipes, filepath)
                                         ELSE failed_recipes
    /\ pc' = "import_recipes_from_directory"
    /\ UNCHANGED <<json_files, filepath, success_count, auto_tag>>
    /\ UNCHANGED <<parseVars, categoryVars, insertVars, sessionVars,
                   scrapeVars, convertVars>>

\* lines 181-187: the rpc succeeds or raises; either way a line is printed
\* and the call returns
AutoTagRecipe ==
    /\ pc = "auto_tag_recipe"
    /\ \E raised \in BOOLEAN :
          /\ tagged' = Append(tagged, [file |-> filepath, recipe_id |-> returned,
                                       raised |-> raised])
          /\ stdout' = stdout \o
                <<[line |-> IF raised THEN "Auto-tagging skipped"
                                      ELSE "Auto-tagged recipe"]>>
    /\ pc' = "import_recipes_from_directory"
    /\ UNCHANGED <<json_files, filepath, success_count, failed_recipes,
                   auto_tag>>
    /\ UNCHANGED <<parseVars, categoryVars, insertVars, sessionVars,
                   scrapeVars, convertVars>>

\* lines 229-237: the summary is printed and the two tallies returned
ImportReturn ==
    /\ pc = "import_recipes_from_directory"
    /\ json_files # <<>>
    /\ filepath = Len(json_files)
    /\ stdout' = stdout \o
          <<[line |-> "Successfully imported", count |-> success_count,
             failed |-> failed_recipes]>>
    /\ pc' = "imported"
    /\ UNCHANGED <<parseVars, categoryVars, insertVars, sessionVars,
                   scrapeVars, convertVars, importVars>>

NextImport ==
    \/ ImportNoFiles
    \/ ImportReadFails
    \/ ImportCallInsert
    \/ NextInsert
    \/ ImportCount
    \/ AutoTagRecipe
    \/ ImportReturn

SpecImport == InitImport /\ [][NextImport]_vars


(***************************************************************************)
(* Properties of fallback_parse (checked under SpecFallback).              *)
(***************************************************************************)
\* first whitespace-delimited word of a name
FirstWord(name) == split(name)[1]

\* C2: for empty or whitespace-only input fallback_parse does not raise and
\* yields the empty string as the name.
C2_EmptyInputYieldsEmptyName ==
    (pc = "returned" /\ \A i \in 1..Len(ingredient_text) :
                            ingredient_text[i] \in Whitespace)
        => result = Str(<<>>)

\* the texts "<digits> <unit> <name>", by name
C8_Texts == UnitTextsOf(DigitTexts)

\* C8: for every text "<digits> <unit> <name>", unit any keyword of the unit
\* vocabulary in any letter case and with an optional trailing "s",
\* fallback_parse returns the first word of <name>.
C8_UnitPrefixStripped ==
    pc = "returned" =>
        \A name \in NameTexts :
            ingredient_text \in C8_Texts[name] => result = Str(FirstWord(name))

\* "1 tbsp lemon pepper" has been parsed to "lemon"
C8_Witness ==
    /\ pc = "returned"
    /\ ingredient_text = test_ingredients[2]
    /\ ingredient_text \in C8_Texts[<<"l","e","m","o","n"," ","p","e","p","p","e","r">>]
    /\ result = Str(<<"l","e","m","o","n">>)

\* the texts "<qty1> <unit1> / <qty2> <unit2> <name>" with unit2 any keyword
\* of the vocabulary of step 1, by name
C9_AllTexts == DualTextsOf(UNIT_KEYWORDS)

\* the same texts with unit2 a keyword of the second group of the pattern
C9_SecondGroupTexts == DualTextsOf(DUAL_UNIT_KEYWORDS)

\* C9 as stated: for every dual-unit text whose units are both keywords of
\* the vocabulary of step 1 (small, large, medium, pinch, dash, clove and
\* cloves included), fallback_parse returns the first word of <name>.
C9_Original_DualGroupStripped ==
    pc = "returned" =>
        \A name \in NameTexts :
            ingredient_text \in C9_AllTexts[name]
                => result = Str(FirstWord(name))

\* C9 amended: for every dual-unit text whose first unit is a keyword of the
\* vocabulary of step 1 and whose second unit is one of tsp ... l (the
\* vocabulary without small, large, medium, pinch, dash, clove, cloves),
\* fallback_parse strips the whole group and returns the first word of
\* <name>.
C9_DualGroupStripped ==
    pc = "returned" =>
        \A name \in NameTexts :
            ingredient_text \in C9_SecondGroupTexts[name]
                => result = Str(FirstWord(name))

\* "50 g / 1.5 oz feta cheese" has been parsed to "feta"
C9_Witness ==
    /\ pc = "returned"
    /\ ingredient_text = test_ingredients[6]
    /\ ingredient_text \in C9_SecondGroupTexts[<<"f","e","t","a"," ","c","h","e","e","s","e">>]
    /\ result = Str(<<"f","e","t","a">>)

(***************************************************************************)
(* Properties of parse_ingredient_advanced (checked under SpecParse).      *)
(***************************************************************************)
\* C1: for every non-empty text, whatever the extractor does,
\* parse_ingredient_advanced returns a record or a name string; no exception
\* leaves the call.
C1_NoExceptionEscapes ==
    (pc # "parse_ingredient_advanced" /\ ingredient_text # <<>>)
        => result.kind \in {"dict", "str"}

\* the extraction completed and its first name span scored above 0.6
C4_Accepted ==
    /\ nlp[1].kind = "ParsedIngredient"
    /\ nlp[1].name # <<>>
    /\ nlp[1].name[1].confidence >= 61

\* C4: a record is returned exactly when the extraction completes and the
\* top name span's confidence is strictly greater than 0.6; at or below 0.6,
\* without a name span, or when the extraction raises, the outcome is that
\* of fallback_parse(text).
C4_ConfidenceGate ==
    pc # "parse_ingredient_advanced" =>
        /\ result.kind = "dict" <=> C4_Accepted
        /\ ~C4_Accepted => result = fallback_parse(ingredient_text)

\* a span of confidence exactly 0.6 has been sent to the fallback parser
C4_Witness ==
    /\ pc = "returned"
    /\ nlp[1].kind = "ParsedIngredient"
    /\ nlp[1].name # <<>>
    /\ nlp[1].name[1].confidence = 60
    /\ result.kind = "str"

\* quantity, unit, preparation, original and the flag of a primary record
C5_OtherFields ==
    /\ result.parsed_successfully = TRUE
    /\ result.original = ingredient_text
    /\ IF nlp[1].amount = <<>>
       THEN result.quantity = None /\ result.unit = Str(<<>>)
       ELSE /\ result.quantity = nlp[1].amount[1].quantity
            /\ result.unit = nlp[1].amount[1].unit
    /\ IF nlp[1].preparation.kind = "None"
       THEN result.preparation = <<>>
       ELSE result.preparation = nlp[1].preparation.text

\* C5 as stated: the name of every primary record is the text of the
\* highest-confidence name span (and the other fields are as in C5_OtherFields).
C5_Original_NameOfHighestConfidence ==
    (pc # "parse_ingredient_advanced" /\ result.kind = "dict") =>
        /\ C5_OtherFields
        /\ \E i \in 1..Len(nlp[1].name) :
              /\ result.name = nlp[1].name[i].text
              /\ \A j \in 1..Len(nlp[1].name) :
                    nlp[1].name[j].confidence <= nlp[1].name[i].confidence

\* C5 amended: every primary record has parsed_successfully = true, name
\* equal to the text of the first name span (the span whose confidence was
\* tested; a later span may score higher), quantity and unit of the first
\* amount span (None and '' without one), the preparation span's text ('' 
\* without one) and original equal to the input text.
C5_PrimaryRecord ==
    (pc # "parse_ingredient_advanced" /\ result.kind = "dict") =>
        /\ C5_OtherFields
        /\ result.name = nlp[1].name[1].text

\* a record built from two name spans, two amount spans and a preparation
C5_Witness ==
    /\ pc = "returned"
    /\ result.kind = "dict"
    /\ Len(nlp[1].name) = 2
    /\ nlp[1].name[1].text # nlp[1].name[2].text
    /\ Len(nlp[1].amount) = 2
    /\ nlp[1].amount[1] # nlp[1].amount[2]
    /\ nlp[1].preparation.kind # "None"

\* C7: the value parse_ingredient_advanced returns is a record whose fields
\* name, quantity, unit, preparation and parsed_successfully can be read.
C7_ResultIsRecord ==
    (pc # "parse_ingredient_advanced" /\ result.kind # "raise")
        => (result.kind = "dict" /\ pc # "TypeError")

(***************************************************************************)
(* Properties of categorize_ingredient (checked under SpecCategorize).     *)
(***************************************************************************)
C10_Order == <<"proteins", "vegetables", "grains", "dairy", "herbs">>

\* keywords the table lists under a label
C10_Keywords(label) ==
    LET c == CHOOSE c \in 1..Len(INGREDIENT_CATEGORIES) :
                 INGREDIENT_CATEGORIES[c].category = label
    IN  { INGREDIENT_CATEGORIES[c].keywords[k] :
            k \in 1..Len(INGREDIENT_CATEGORIES[c].keywords) }

\* a keyword of the label is a case-insensitive substring of the name
C10_Occurs(label, name) ==
    \E kw \in C10_Keywords(label) :
        \E i \in 1..(Len(name) - Len(kw) + 1) :
            \A j \in 1..Len(kw) : LowerChar(name[i + j - 1]) = LowerChar(kw[j])

\* C10: categorize_ingredient returns exactly one of the six labels: the
\* first category in the order proteins, vegetables, grains, dairy, herbs
\* with a keyword that is a case-insensitive substring of the name, other
\* when there is none; proteins wins over dairy.
C10_FirstMatchingCategory ==
    pc = "returned" =>
        /\ category \in {"proteins", "vegetables", "grains", "dairy", "herbs",
                         "other"}
        /\ IF \E k \in 1..5 : C10_Occurs(C10_Order[k], ingredient_name)
           THEN \E k \in 1..5 :
                   /\ category = C10_Order[k]
                   /\ C10_Occurs(C10_Order[k], ingredient_name)
                   /\ \A j \in 1..(k - 1) :
                         ~C10_Occurs(C10_Order[j], ingredient_name)
           ELSE category = "other"
        /\ (C10_Occurs("proteins", ingredient_name)
              /\ C10_Occurs("dairy", ingredient_name)) => category = "proteins"

\* a name with a dairy keyword before a proteins keyword came out proteins
C10_Witness ==
    /\ pc = "returned"
    /\ ingredient_name = <<"C","H","E","E","S","E"," ","c","h","i","c","k","e","n">>
    /\ C10_Occurs("dairy", ingredient_name)
    /\ C10_Occurs("proteins", ingredient_name)
    /\ category = "proteins"

(***************************************************************************)
(* Properties of insert_recipe (checked under SpecInsert).                 *)
(***************************************************************************)
\* what the parser returns (or raises) for the k-th line of the recipe
ParsedLine(k) == parse_ingredient_advanced(ingredients_list[k], nlp[k])

\* C3: a malformed line (one neither parser produces a name for) never
\* aborts the batch: every other line of the list is still parsed,
\* categorized and stored.
C3_MalformedLineDoesNotAbort ==
    (/\ pc = "done"
     /\ recipe_data.title # Missing
     /\ recipe_data.ingredients # Missing
     /\ db_fault = "none") =>
        \A k \in 1..Len(ingredients_list) :
            ParsedLine(k).kind # "raise" =>
                \E row \in db.ingredients :
                    /\ row.position = k
                    /\ row.original_text = ingredients_list[k]
                    /\ row.category = categorize_ingredient(row.ingredient_name)

\* a quantity that is a number, and two quantities that are the same number
C6_IsNumber(given) == given.kind \in {"Fraction", "int", "float"}

C6_SameQuantity(a, b) ==
    \/ a = b
    \/ /\ C6_IsNumber(a)
       /\ C6_IsNumber(b)
       /\ a.num * b.den = b.num * a.den

\* a stored row against the parser's result, the quantity of a record apart
C6_RowFields(row) ==
    LET parsed == ParsedLine(row.position)
    IN  /\ parsed.kind = "str" =>
              /\ row.ingredient_name = parsed.value
              /\ row.quantity = None
              /\ row.unit = <<>>
              /\ row.preparation = <<>>
        /\ parsed.kind = "dict" =>
              /\ row.ingredient_name = parsed.name
              /\ row.unit = (IF parsed.unit.kind = "str"
                             THEN parsed.unit.value ELSE parsed.unit.text)
              /\ row.preparation = parsed.preparation

\* C6 as stated: a bare name string is stored as name = the string,
\* quantity None, unit and preparation empty; a record is stored with the
\* record's name, quantity, unit and preparation.
C6_Original_RowCarriesRecord ==
    \A row \in db.ingredients :
        /\ C6_RowFields(row)
        /\ ParsedLine(row.position).kind = "dict" =>
              C6_SameQuantity(row.quantity, ParsedLine(row.position).quantity)

\* the stored quantity is the record's number, None for a record without a
\* quantity or with one that is not a number
C6_Converted(stored, given) ==
    /\ stored = convert_quantity(given)
    /\ C6_IsNumber(given) => C6_SameQuantity(stored, given)
    /\ given = Str(<<"1","-","2">>) => stored = None

\* C6 amended: a bare name string is stored as name = the string, quantity
\* None, unit and preparation empty; a record is stored with the record's
\* name and preparation, its unit as a string, and its quantity as
\* convert_quantity gives it: the same number as a float, and None when the
\* record's quantity is a string that is not a number (such as "1-2").
C6_RowFromParserResult ==
    \A row \in db.ingredients :
        /\ C6_RowFields(row)
        /\ ParsedLine(row.position).kind = "dict" =>
              C6_Converted(row.quantity, ParsedLine(row.position).quantity)

\* rows of a bare name, of a record with a Fraction and of a record with a
\* quantity that is not a number are stored
C6_Witness ==
    /\ pc = "done"
    /\ \E row \in db.ingredients : ParsedLine(row.position).kind = "str"
    /\ \E row \in db.ingredients :
          /\ ParsedLine(row.position).kind = "dict"
          /\ ParsedLine(row.position).quantity.kind = "Fraction"
    /\ \E row \in db.ingredients :
          /\ ParsedLine(row.position).kind = "dict"
          /\ ParsedLine(row.position).quantity = Str(<<"1","-","2">>)

\* the stored ingredient rows of the recipe insert_recipe returned the id of
C11_Rows == { row \in db.ingredients : row.recipe_id = returned }

\* C11: when insert_recipe succeeds on a recipe whose ingredient list has n
\* lines, exactly n ingredient rows of the recipe are stored, in input
\* order: the k-th row has position k (counted from 1) and original_text
\* equal to the k-th line.
C11_RowsInInputOrder ==
    (/\ pc = "done"
     /\ returned.kind = "int"
     /\ recipe_data.ingredients # Missing) =>
        /\ Cardinality(C11_Rows) = Len(ingredients_list)
        /\ \A k \in 1..Len(ingredients_list) :
              \E row \in C11_Rows :
                  /\ row.position = k
                  /\ row.original_text = ingredients_list[k]

\* a list of three lines, two of them different, was stored
C11_Witness ==
    /\ pc = "done"
    /\ returned.kind = "int"
    /\ recipe_data.ingredients # Missing
    /\ Len(ingredients_list) = 3
    /\ ingredients_list[1] # ingredients_list[2]
    /\ Cardinality(C11_Rows) = 3

(***************************************************************************)
(* Properties of a session (checked under SpecCalls).                      *)
(***************************************************************************)
\* the finished categorize_ingredient calls of the session
C12_Categorized ==
    { k \in 1..Len(calls) :
        calls[k].fn = "categorize_ingredient" /\ calls[k].ret # "pending" }

\* C12: no sequence of parse_ingredient_advanced, fallback_parse,
\* categorize_ingredient and insert_recipe calls modifies the category
\* table, so two categorize_ingredient calls with the same name return the
\* same category whatever was called in between.
C12_TableNeverModified ==
    /\ ingredient_categories = INGREDIENT_CATEGORIES
    /\ \A i, j \in C12_Categorized :
          calls[i].arg = calls[j].arg => calls[i].ret = calls[j].ret

\* categorize_ingredient was called twice with one name, with an
\* insert_recipe that stored ingredient rows in between
C12_Witness ==
    /\ Len(calls) = 3
    /\ {1, 3} \subseteq C12_Categorized
    /\ calls[1].arg = calls[3].arg
    /\ calls[2].fn = "insert_recipe"
    /\ db.ingredients # {}

(***************************************************************************)
(* More properties of fallback_parse (checked under SpecFallback).         *)
(***************************************************************************)
Letters == { LowerCase[i] : i \in 1..26 } \cup { UpperCase[i] : i \in 1..26 }

\* a text without its leading run of digits, slashes, periods and whitespace
C13_Rest(text) == From(text, RunLen(QuantityChars, text, 1) + 1)

\* the unit keywords as words, with and without the plural s
C13_UnitWords ==
    { UNIT_KEYWORDS[k] : k \in 1..Len(UNIT_KEYWORDS) }
        \cup { UNIT_KEYWORDS[k] \o <<"s">> : k \in 1..Len(UNIT_KEYWORDS) }

\* the text starts with a bare numeric quantity: a digit first, and the
\* word after the quantity is not a unit keyword
C13_BareQuantity(text) ==
    /\ text # <<>>
    /\ text[1] \in Digits
    /\ LET rest == C13_Rest(text)
       IN  lower(SubSeq(rest, 1, RunLen(Letters, rest, 1))) \notin C13_UnitWords

\* a text up to its first comma or opening parenthesis
C13_UpToDelimiter(text) ==
    SubSeq(text, 1, RunLen({text[i] : i \in 1..Len(text)} \ Delimiters, text, 1))

\* C13: for a text that starts with a bare numeric quantity and has no unit
\* keyword at its head, fallback_parse strips only the leading run of
\* digits, slashes, periods and whitespace, cuts the rest at the first
\* comma or opening parenthesis and returns the first whitespace-delimited
\* token of what remains.
C13_BareQuantityStripped ==
    (pc = "returned" /\ C13_BareQuantity(ingredient_text)) =>
        LET words == split(C13_UpToDelimiter(C13_Rest(ingredient_text)))
        IN  /\ words # <<>>
            /\ result = Str(words[1])

\* the words of a text as runs of letters, in lower case
C14_Words(text) ==
    { lower(SubSeq(text, i, i + RunLen(Letters, text, i) - 1)) :
        i \in { j \in 1..Len(text) :
                  /\ text[j] \in Letters
                  /\ j = 1 \/ text[j - 1] \notin Letters } }

\* the text contains no digit and no unit keyword
C14_NoDigitNoUnit(text) ==
    /\ \A i \in 1..Len(text) : text[i] \notin Digits
    /\ C14_Words(text) \cap C13_UnitWords = {}

\* the substitutions of steps 2 and 3 remove nothing from the text
C14_NothingStripped(text) ==
    /\ SubPattern(text) = text
    /\ SubLeadingQuantity(text) = text

\* C14 as stated: for every text that contains no digits and no unit
\* keyword, fallback_parse strips nothing in steps 2 and 3 and returns the
\* first word of the original text unchanged.
C14_Original_FirstWordReturned ==
    (pc = "returned" /\ C14_NoDigitNoUnit(ingredient_text)) =>
        /\ C14_NothingStripped(ingredient_text)
        /\ split(ingredient_text) # <<>>
        /\ result = Str(split(ingredient_text)[1])

\* C14 amended: for every text that contains no digits and no unit keyword
\* and starts with a letter, fallback_parse strips nothing in steps 2 and 3
\* and returns the first word of the original text, cut at its first comma
\* or opening parenthesis when it has one.
C14_FirstWordUpToDelimiter ==
    (/\ pc = "returned"
     /\ C14_NoDigitNoUnit(ingredient_text)
     /\ ingredient_text # <<>>
     /\ ingredient_text[1] \in Letters) =>
        /\ C14_NothingStripped(ingredient_text)
        /\ result = Str(C13_UpToDelimiter(split(ingredient_text)[1]))

\* a text without digits and units was given whose first word holds a
\* delimiter: the word came back cut at it
C14_Witness ==
    /\ pc = "returned"
    /\ C14_NoDigitNoUnit(ingredient_text)
    /\ ingredient_text = <<"p","o","r","k","(","s","a","l","t">>
    /\ split(ingredient_text)[1] = ingredient_text
    /\ result = Str(<<"p","o","r","k">>)

(***************************************************************************)
(* Properties of the scraper (checked under SpecScrape).                   *)
(***************************************************************************)
\* position of the most recent h3 before position k of the page, 0 for none
C15_LastH3(k) ==
    LET before == { j \in 1..(k - 1) : content_div[j].name = "h3" }
    IN  IF before = {} THEN 0
        ELSE CHOOSE j \in before : \A i \in before : i <= j

\* the lower-case word occurs in the heading, letter case apart
C15_Occurs(word, heading) ==
    \E i \in 1..(Len(heading) - Len(word) + 1) :
        \A j \in 1..Len(word) : LowerChar(heading[i + j - 1]) = word[j]

\* the element at k is a list item and the most recent h3 before it
\* contains the word
C15_Under(word, k) ==
    /\ content_div[k].name = "li"
    /\ C15_LastH3(k) # 0
    /\ C15_Occurs(word, clean_text(content_div[C15_LastH3(k)]))

\* what a turn of either loop collects from the element at el
C15_Turn ==
    /\ (pc = "parse_ingredients" /\ el <= Len(content_div)
          /\ content_div[el].name = "li") =>
            IF C15_Under(<<"i","n","g","r","e","d","i","e","n","t">>, el)
            THEN LET heading == clean_text(content_div[C15_LastH3(el)])
                 IN  /\ heading \in DOMAIN ingredients
                     /\ ingredients' =
                          [ingredients EXCEPT ![heading] =
                              Append(@, sanitize_ingredient(
                                            clean_text(content_div[el])))]
            ELSE ingredients' = ingredients
    /\ (pc = "parse_instructions" /\ el <= Len(content_div)) =>
            IF C15_Under(<<"i","n","s","t","r","u","c","t","i","o","n">>, el)
            THEN instructions' =
                     Append(instructions, clean_text(content_div[el]))
            ELSE instructions' = instructions

\* C15: scanning the h3 and li elements in document order,
\* parse_ingredients collects a list item exactly when the most recent h3
\* before it contains "ingredient" in any letter case, and
\* parse_instructions exactly when that heading contains "instruction";
\* items before any heading or under a heading with neither word are
\* collected by neither; a collected item goes to the end of its list, so
\* the lists keep document order.
C15_CollectedUnderHeading == [][C15_Turn]_vars

\* an item under an upper-case ingredient heading and an item under an
\* instruction heading were collected, each by one of the two scans only
C15_Witness ==
    /\ pc = "done"
    /\ Len(content_div) = 4
    /\ content_div[1] = H3(<<"S","A","U","C","E"," ","I","N","G","R","E","D","I","E","N","T","S">>)
    /\ content_div[2].name = "li"
    /\ content_div[3] = H3(<<"I","n","s","t","r","u","c","t","i","o","n","s">>)
    /\ content_div[4].name = "li"
    /\ content_div[2] # content_div[4]
    /\ ingredients[clean_text(content_div[1])]
          = <<sanitize_ingredient(clean_text(content_div[2]))>>
    /\ instructions = <<clean_text(content_div[4])>>

(***************************************************************************)
(* Properties of convert_quantity (checked under SpecConvert).             *)
(***************************************************************************)
\* the text is "a/b": digits, a slash, digits
C16_IsFractionText(text) ==
    LET a == RunLen(Digits, text, 1)
    IN  /\ a > 0
        /\ a < Len(text)
        /\ text[a + 1] = "/"
        /\ a + 1 < Len(text)
        /\ \A i \in (a + 2)..Len(text) : text[i] \in Digits

C16_Numerator(text) == DecimalValue(SubSeq(text, 1, RunLen(Digits, text, 1)))

C16_Denominator(text) == DecimalValue(From(text, RunLen(Digits, text, 1) + 2))

\* C16: for every quantity the parser can produce (None, a Fraction, an int
\* or float, a string) convert_quantity returns None or a finite number: a
\* fraction string "a/b" with b nonzero yields a/b, a Fraction or number
\* its own value, and None, a fraction string with a zero denominator or a
\* string without a digit yields None.
C16_NoneOrFinite ==
    pc = "returned" =>
        /\ \/ converted = None
           \/ converted.kind = "float" /\ converted.den # 0
        /\ quantity = None => converted = None
        /\ C6_IsNumber(quantity) => C6_SameQuantity(converted, quantity)
        /\ quantity.kind = "str" =>
              /\ C16_IsFractionText(quantity.value) =>
                    IF C16_Denominator(quantity.value) = 0
                    THEN converted = None
                    ELSE converted = Float(C16_Numerator(quantity.value),
                                           C16_Denominator(quantity.value))
              /\ (\A i \in 1..Len(quantity.value) :
                     quantity.value[i] \notin Digits) => converted = None

(***************************************************************************)
(* More properties of parse_ingredient_advanced (checked under SpecParse). *)
(***************************************************************************)
\* why the call falls back: the exception of the extraction, the missing
\* name span, or the low confidence
C17_Reason ==
    IF nlp[1].kind = "raise" THEN nlp[1].exc
    ELSE IF nlp[1].name = <<>> THEN "IndexError"
    ELSE "ValueError"

\* what a call of parse_ingredient_advanced does to the output and to the
\* rest of the state
C17_Call ==
    pc = "parse_ingredient_advanced" =>
        /\ IF C4_Accepted
           THEN stdout' = stdout
           ELSE /\ Len(stdout') = Len(stdout) + 1
                /\ SubSeq(stdout', 1, Len(stdout)) = stdout
                /\ stdout'[Len(stdout')].text = ingredient_text
                /\ stdout'[Len(stdout')].reason = C17_Reason
        /\ UNCHANGED <<ingredient_text, nlp, categoryVars, insertVars,
                       sessionVars, scrapeVars, convertVars, importVars>>

\* C17: each call of parse_ingredient_advanced emits exactly one
\* diagnostic line, holding the input text and the reason, when control
\* goes to the fallback (low confidence or extraction error), and emits
\* nothing and has no other side effect when the primary result is
\* accepted.
C17_OneDiagnosticOnFallback == [][C17_Call]_vars

\* a call fell back on low confidence and printed its line
C17_Witness ==
    /\ pc = "returned"
    /\ nlp[1].kind = "ParsedIngredient"
    /\ nlp[1].name # <<>>
    /\ nlp[1].name[1].confidence = 60
    /\ stdout = <<[text |-> ingredient_text, reason |-> "ValueError"]>>

(***************************************************************************)
(* More properties of insert_recipe (checked under SpecInsert).            *)
(***************************************************************************)
\* the stored rows that belong to the recipe of the call
C18_RowsOfRecipe ==
    IF recipe_id = None THEN {}
    ELSE { row \in db.recipes : Id(row.id) = recipe_id }
           \cup { row \in db.ingredients : row.recipe_id = recipe_id }
           \cup { row \in db.instructions : row.recipe_id = recipe_id }
           \cup { row \in db.nutrition : row.recipe_id = recipe_id }

\* C18: insert_recipe is all-or-nothing: whenever it returns None, whatever
\* the failing step (recipe insert, ingredient parsing, ingredient insert,
\* instruction insert, nutrition insert), no row of that recipe remains
\* stored in recipes, ingredients, instructions or nutrition.
C18_AllOrNothing ==
    (pc = "done" /\ returned = None) => C18_RowsOfRecipe = {}

(***************************************************************************)
(* Properties of import_recipes_from_directory (checked under SpecImport). *)
(***************************************************************************)
\* the names in failed_recipes, and the files auto_tag_recipe was called for
C19_Failed == { failed_recipes[k] : k \in 1..Len(failed_recipes) }

C19_Tagged == { tagged[k].file : k \in 1..Len(tagged) }

\* C19: when import_recipes_from_directory finishes over a non-empty set
\* of files, success_count + len(failed_recipes) is the number of files and
\* no file is both a success and listed as failed; auto_tag_recipe is
\* called at most once per file and only for a file whose insert_recipe
\* returned an id; a failure of the auto-tagging neither makes the file a
\* failure nor stops the import of the files after it.
C19_EveryFileAccountedOnce ==
    /\ Cardinality(C19_Tagged) = Len(tagged)
    /\ \A k \in 1..Len(tagged) :
          /\ tagged[k].recipe_id.kind = "int"
          /\ \E row \in db.recipes : Id(row.id) = tagged[k].recipe_id
          /\ tagged[k].file \notin C19_Failed
    /\ (pc = "imported" /\ json_files # <<>>) =>
          /\ filepath = Len(json_files)
          /\ success_count + Len(failed_recipes) = Len(json_files)
          /\ Cardinality(C19_Failed) = Len(failed_recipes)
          /\ C19_Failed \subseteq 1..Len(json_files)
          /\ \A k \in 1..Len(json_files) :
                json_files[k].kind # "recipe" => k \in C19_Failed
          /\ auto_tag =>
                C19_Tagged = (1..Len(json_files)) \ C19_Failed

\* the auto-tagging of the first file failed; the file stayed a success
\* and the second file was imported and failed
C19_Witness ==
    /\ pc = "imported"
    /\ Len(json_files) = 2
    /\ tagged = <<[file |-> 1, recipe_id |-> Id(1), raised |-> TRUE]>>
    /\ success_count = 1
    /\ failed_recipes = <<2>>
    /\ json_files[2].kind = "recipe"

(***************************************************************************)
(* More properties of the scraper (checked under SpecScrape).              *)
(***************************************************************************)
\* the list items under an ingredient heading, by position in the page
C20_Items == { k \in 1..Len(content_div) : C15_Under(<<"i","n","g","r","e","d","i","e","n","t">>, k) }

C20_Heading(k) == clean_text(content_div[C15_LastH3(k)])

C20_Item(k) == sanitize_ingredient(clean_text(content_div[k]))

\* C20: parse_ingredients loses no ingredient: every list item that
\* follows an ingredient heading, with no other heading in between, is in
\* the returned mapping exactly once, under the text of that heading, also
\* when two ingredient headings have the same text.
C20_NoIngredientLost ==
    pc # "parse_ingredients" =>
        \A k \in C20_Items :
            /\ C20_Heading(k) \in DOMAIN ingredients
            /\ Cardinality({ i \in 1..Len(ingredients[C20_Heading(k)]) :
                               ingredients[C20_Heading(k)][i] = C20_Item(k) })
                 = Cardinality({ j \in C20_Items :
                                   /\ C20_Heading(j) = C20_Heading(k)
                                   /\ C20_Item(j) = C20_Item(k) })

(***************************************************************************)
(* The scraper feeding insert_recipe: crawl_sitemap saves the recipe that  *)
(* try_scrape_recipe returned as a JSON file, and the importer loads the   *)
(* file and hands the dict to insert_recipe.                               *)
(***************************************************************************)
\* a key of the saved JSON object: the section heading, unchanged, as the
\* string that recipe_data['ingredients'].get compares with 'Ingredients'
SectionKey(heading) ==
    CASE heading = <<"I","n","g","r","e","d","i","e","n","t","s">> ->
           "Ingredients"
      [] heading = <<"S","A","U","C","E"," ","I","N","G","R","E","D","I","E","N","T","S">> ->
           "SAUCE INGREDIENTS"

\* json.dump then json.load of the ingredients dict: same keys, same lists
SavedSections(dict) ==
    [key \in { SectionKey(heading) : heading \in DOMAIN dict } |->
        dict[CHOOSE heading \in DOMAIN dict : SectionKey(heading) = key]]

\* what the ingredient parser makes of a scraped line: it is unavailable
\* and raises, or it takes the whole line as a name it is sure of
ScrapedLineParsed(outcome, line) ==
    IF outcome = "raise" THEN Raise("Exception")
    ELSE ParsedIngredient(<<[text |-> line, confidence |-> 90]>>, <<>>, None)

InitPipeline == InitScrape

\* batchcreate.py lines 34-41 and import_recipes.py lines 206-211: a recipe
\* that was scraped is saved, loaded again and given to insert_recipe
SaveAndLoadRecipe ==
    /\ pc = "done"
    /\ recipe # Pending
    /\ recipe # None
    /\ recipe_data = None
    /\ recipe_data' =
          [title |-> Str(<<"R", "i", "b", "s">>),
           ingredients |->
               [kind |-> "dict",
                sections |-> SavedSections(recipe.ingredients)],
           instructions |-> [kind |-> "list", items |-> recipe.instructions],
           nutrition |-> Nutrition]
    /\ \E outcome \in {"raise", "parsed"} :
          LET saved == SavedSections(recipe.ingredients)
              lines == IF "Ingredients" \in DOMAIN saved
                       THEN saved["Ingredients"] ELSE <<>>
          IN  nlp' = [k \in 1..Len(lines) |->
                         ScrapedLineParsed(outcome, lines[k])]
    /\ pc' = "insert_recipe"
    /\ UNCHANGED <<ingredient_text, result, stdout, categoryVars, db_fault,
                   db, idx, parsed_ingredients, recipe_id, returned>>
    /\ UNCHANGED <<sessionVars, scrapeVars, convertVars, importVars>>

\* the page is scraped while recipe is pending, and inserted afterwards
NextPipeline ==
    \/ recipe = Pending /\ ParseIngredientsElement
    \/ recipe = Pending /\ ParseIngredientsReturn
    \/ recipe = Pending /\ ParseInstructionsElement
    \/ recipe = Pending /\ ParseInstructionsReturn
    \/ recipe = Pending /\ TryScrapeRecipe
    \/ SaveAndLoadRecipe
    \/ recipe # Pending /\ InsertRecipeRow
    \/ recipe # Pending /\ ParseIngredientLine
    \/ recipe # Pending /\ InsertIngredients
    \/ recipe # Pending /\ InsertInstructions
    \/ recipe # Pending /\ InsertNutrition

SpecPipeline == InitPipeline /\ [][NextPipeline]_vars

\* the lines the scraper collected, as pairs of section heading and position
C21_Collected ==
    { pair \in (DOMAIN ingredients) \X (1..MaxElements) :
        pair[2] <= Len(ingredients[pair[1]]) }

\* C21: every ingredient line that the scraper collected for a recipe,
\* under any ingredient section heading, is parsed and stored as an
\* ingredient row when insert_recipe succeeds for that recipe.
C21_EveryCollectedLineStored ==
    (pc = "done" /\ returned.kind = "int") =>
        \A pair \in C21_Collected :
            \E row \in db.ingredients :
                /\ row.recipe_id = returned
                /\ row.original_text = ingredients[pair[1]][pair[2]]

====
